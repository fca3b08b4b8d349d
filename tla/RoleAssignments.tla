--------------------------- MODULE RoleAssignments ---------------------------
(***************************************************************************)
(* RoleAssignmentsMixin and CursorStore of migrate_service_data: copying   *)
(* the role assignments of one service into the gateway, page by page.     *)
(*                                                                         *)
(* Pages are read with id__gt=<last id seen>.  After each page the position*)
(* is stored in a cursor table, so that a later invocation resumes there.  *)
(* Every database write commits on its own: the global assignments of a    *)
(* page, its object assignments and the cursor are three transactions, and *)
(* the command can be killed or raise between any two of them.  The RBAC   *)
(* permission cache is recomputed once, in a finally block, for the object *)
(* roles collected on the way.                                             *)
(*                                                                         *)
(* Meanwhile the service inserts and deletes assignments.  Ids come from a *)
(* database sequence: they are handed out in order, but a row becomes      *)
(* visible only when its transaction commits, and transactions commit in   *)
(* any order.                                                              *)
(***************************************************************************)
EXTENDS Integers, FiniteSets

CONSTANTS
  MaxPk,           \* bound: ids the service hands out per type
  InitialPk,       \* ids 1..InitialPk[t] exist when the command first runs
  PageSize,        \* RESOURCE_LIST_MAX_PAGE_SIZE
  GlobalRow,       \* rows without an object
  Unresolvable,    \* rows whose role, actor or object the gateway lacks
  ObjectRole,      \* (role definition, object) pairs
  ObjectRoleOf,    \* [Row -> ObjectRole]
  AlreadyAssigned  \* rows the gateway has from elsewhere

AssignmentType == {"user", "team"}
Pk == 1..MaxPk
Row == AssignmentType \X Pk

ASSUME RoleAssumption ==
  /\ MaxPk \in Nat
  /\ InitialPk \in [AssignmentType -> 0..MaxPk]
  /\ PageSize \in Nat \ {0}
  /\ GlobalRow \subseteq Row
  /\ Unresolvable \subseteq Row
  /\ ObjectRoleOf \in [Row -> ObjectRole]
  /\ AlreadyAssigned \subseteq Row

VARIABLES
  \* the service
  rows,      \* visible assignments: [AssignmentType -> SUBSET Pk]
  inflight,  \* inserted, not yet committed
  next,      \* next value of the id sequence
  \* the gateway's database
  assigned,  \* number of gateway assignments made from each row
  cursor,    \* migrate_service_data_role_cursor.last_pk
  uncached,  \* object roles whose permissions were not recomputed
  \* the command
  rpc,       \* where migrate_role_assignments stands
  at,        \* assignment_type
  idgt,      \* base_filters['id__gt']
  page,      \* ids of the page being processed
  created,   \* created, of the type being processed
  roles,     \* all_object_roles of that type
  total,     \* total_created
  allRoles,  \* all_object_roles
  \* history
  outcome,   \* how the last invocation ended
  excused,   \* object roles it may leave stale: those that were when it
             \* began, and those of the type in which it raised
  overlapped \* rows whose transaction was open when some invocation read
             \* a page with a higher id

upstream == <<rows, inflight, next>>
command == <<rpc, at, idgt, page, created, roles, total, allRoles>>
history == <<outcome, excused, overlapped>>
vars == <<upstream, assigned, cursor, uncached, command, history>>

Init ==
  /\ rows = [t \in AssignmentType |-> 1..InitialPk[t]]
  /\ inflight = [t \in AssignmentType |-> {}]
  /\ next = [t \in AssignmentType |-> InitialPk[t] + 1]
  /\ assigned = [r \in Row |-> IF r \in AlreadyAssigned THEN 1 ELSE 0]
  /\ cursor = [t \in AssignmentType |-> 0]
  /\ uncached = {}
  /\ rpc = "off" /\ at = "user" /\ idgt = 0 /\ page = {}
  /\ created = 0 /\ roles = {} /\ total = 0 /\ allRoles = {}
  /\ outcome = "none" /\ excused = {} /\ overlapped = {}

-----------------------------------------------------------------------------
(* The service.  A row gets its id when it is inserted. *)
Insert(t) ==
  /\ next[t] <= MaxPk
  /\ inflight' = [inflight EXCEPT ![t] = @ \cup {next[t]}]
  /\ next' = [next EXCEPT ![t] = @ + 1]
  /\ UNCHANGED <<rows, assigned, cursor, uncached, command, history>>

(* It becomes visible when its transaction commits, whatever other        *)
(* transactions do.                                                        *)
Commit(t, pk) ==
  /\ pk \in inflight[t]
  /\ inflight' = [inflight EXCEPT ![t] = @ \ {pk}]
  /\ rows' = [rows EXCEPT ![t] = @ \cup {pk}]
  /\ UNCHANGED <<next, assigned, cursor, uncached, command, history>>

(* An assignment is revoked. *)
Delete(t, pk) ==
  /\ pk \in rows[t]
  /\ rows' = [rows EXCEPT ![t] = @ \ {pk}]
  /\ UNCHANGED <<inflight, next, assigned, cursor, uncached, command, history>>

-----------------------------------------------------------------------------
(* migrate_role_assignments *)
Begin ==
  /\ rpc = "off"
  /\ rpc' = "load"
  /\ outcome' = "running" /\ excused' = uncached
  /\ UNCHANGED <<upstream, assigned, cursor, uncached, at, idgt, page, created,
                 roles, total, allRoles, overlapped>>

(* The command has ended and its local variables are gone. *)
End ==
  /\ rpc' = "off"
  /\ at' = "user" /\ idgt' = 0 /\ page' = {}
  /\ created' = 0 /\ roles' = {} /\ total' = 0 /\ allRoles' = {}
  /\ UNCHANGED <<upstream, assigned, cursor>>

(* CursorStore.__init__: the stored position, or 0 if it cannot be read. *)
LoadCursor ==
  /\ rpc = "load"
  /\ idgt' \in {cursor[at], 0}
  /\ rpc' = "fetch"
  /\ created' = 0 /\ roles' = {}
  /\ UNCHANGED <<upstream, assigned, cursor, uncached, at, page, total,
                 allRoles, history>>

(* The list endpoint: the lowest ids above id__gt, at most a page of them. *)
IsPage(p, t, low) ==
  LET above == {pk \in rows[t] : pk > low} IN
  /\ p \subseteq above
  /\ \A x \in p, y \in above \ p : x < y
  /\ Cardinality(p) <= PageSize
  /\ above # {} => p # {}
  /\ p # above => Cardinality(p) = PageSize

(* Rows with lower ids than the page has, inserted and not yet committed.  *)
Overtaken(p) ==
  {<<at, q>> : q \in {x \in inflight[at] : \E pk \in p : x < pk}}

(* A page is read. *)
FetchPage ==
  /\ rpc = "fetch"
  /\ \E p \in SUBSET Pk : /\ IsPage(p, at, idgt)
                          /\ p # {}
                          /\ page' = p
                          /\ overlapped' = overlapped \cup Overtaken(p)
  /\ rpc' = "globals"
  /\ UNCHANGED <<upstream, assigned, cursor, uncached, at, idgt, created,
                 roles, total, allRoles, outcome, excused>>

(* The rows of the page that resolve to gateway objects. *)
Resolved == {<<at, pk>> : pk \in page} \ Unresolvable

(* A faulty variant that trusts the unique constraint, which does not      *)
(* apply to rows without an object.                                        *)
CreateGlobalsUnfiltered ==
  /\ rpc = "globals"
  /\ LET new == Resolved \cap GlobalRow IN
     /\ assigned' = [r \in Row |-> assigned[r] + IF r \in new THEN 1 ELSE 0]
     /\ created' = created + Cardinality(new)
  /\ rpc' = "objects"
  /\ UNCHANGED <<upstream, cursor, uncached, at, idgt, page, roles, total,
                 allRoles, history>>

(* _bulk_create_global_assignments: what exists already is filtered out. *)
CreateGlobals ==
  /\ rpc = "globals"
  /\ LET new == {r \in Resolved \cap GlobalRow : assigned[r] = 0} IN
     /\ assigned' = [r \in Row |-> assigned[r] + IF r \in new THEN 1 ELSE 0]
     /\ created' = created + Cardinality(new)
  /\ rpc' = "objects"
  /\ UNCHANGED <<upstream, cursor, uncached, at, idgt, page, roles, total,
                 allRoles, history>>

(* _bulk_create_object_assignments: conflicting rows are ignored by the    *)
(* database, yet bulk_create returns them, so they are counted as created. *)
CreateObjects ==
  /\ rpc = "objects"
  /\ LET want == Resolved \ GlobalRow
         new == {r \in want : assigned[r] = 0} IN
     /\ assigned' = [r \in Row |-> assigned[r] + IF r \in new THEN 1 ELSE 0]
     /\ uncached' = uncached \cup {ObjectRoleOf[r] : r \in new}
     /\ created' = created + Cardinality(want)
     /\ roles' = roles \cup {ObjectRoleOf[r] : r \in want}
  /\ rpc' = "advance"
  /\ UNCHANGED <<upstream, cursor, at, idgt, page, total, allRoles, history>>

(* A faulty variant that keeps the filter as it was when the run began. *)
AdvanceFilterFixed ==
  /\ rpc = "advance"
  /\ \E last \in page :
       /\ \A pk \in page : pk <= last
       /\ \/ cursor' = [cursor EXCEPT ![at] = last]
          \/ cursor' = cursor
  /\ idgt' = idgt
  /\ page' = {}
  /\ rpc' = "fetch"
  /\ UNCHANGED <<upstream, assigned, uncached, at, created, roles, total,
                 allRoles, history>>

(* cursor.advance stores the position (a failure is only logged), and the  *)
(* window slides.                                                          *)
Advance ==
  /\ rpc = "advance"
  /\ \E last \in page :
       /\ \A pk \in page : pk <= last
       /\ \/ cursor' = [cursor EXCEPT ![at] = last]
          \/ cursor' = cursor
       /\ idgt' = last
  /\ page' = {}
  /\ rpc' = "fetch"
  /\ UNCHANGED <<upstream, assigned, uncached, at, created, roles, total,
                 allRoles, history>>

(* A faulty variant that forgets the object roles of the first type. *)
FinishTypeForgetsRoles ==
  /\ rpc = "fetch"
  /\ \A pk \in rows[at] : pk <= idgt
  /\ total' = total + created
  /\ allRoles' = roles
  /\ IF at = "user" THEN rpc' = "load" /\ at' = "team" /\ UNCHANGED outcome
                    ELSE rpc' = "finally" /\ outcome' = "returned" /\ UNCHANGED at
  /\ UNCHANGED <<upstream, assigned, cursor, uncached, idgt, page, created,
                 roles, excused, overlapped>>

(* A faulty variant that takes a page that is not full for the end. *)
FinishTypeAtShortPage ==
  /\ rpc = "fetch"
  /\ Cardinality({pk \in rows[at] : pk > idgt}) < PageSize
  /\ total' = total + created
  /\ allRoles' = allRoles \cup roles
  /\ IF at = "user" THEN rpc' = "load" /\ at' = "team" /\ UNCHANGED outcome
                    ELSE rpc' = "finally" /\ outcome' = "returned" /\ UNCHANGED at
  /\ UNCHANGED <<upstream, assigned, cursor, uncached, idgt, page, created,
                 roles, excused, overlapped>>

(* An empty page ends the type: only now are its results added up. *)
FinishType ==
  /\ rpc = "fetch"
  /\ \A pk \in rows[at] : pk <= idgt
  /\ total' = total + created
  /\ allRoles' = allRoles \cup roles
  /\ IF at = "user" THEN rpc' = "load" /\ at' = "team" /\ UNCHANGED outcome
                    ELSE rpc' = "finally" /\ outcome' = "returned" /\ UNCHANGED at
  /\ UNCHANGED <<upstream, assigned, cursor, uncached, idgt, page, created,
                 roles, excused, overlapped>>

(* A faulty variant that logs the failure of a page and goes on. *)
PageFailsIgnored ==
  /\ rpc \in {"globals", "objects"}
  /\ rpc' = "advance"
  /\ UNCHANGED <<upstream, assigned, cursor, uncached, at, idgt, page,
                 created, roles, total, allRoles, history>>

(* A page cannot be fetched or written: the exception leaves the loop. *)
PageFails ==
  /\ rpc \in {"fetch", "globals", "objects"}
  /\ rpc' = "finally"
  /\ outcome' = "raised" /\ excused' = excused \cup roles
  /\ UNCHANGED <<upstream, assigned, cursor, uncached, at, idgt, page,
                 created, roles, total, allRoles, overlapped>>

(* The finally block: compute_team_member_roles and, for the roles         *)
(* collected, compute_object_role_permissions.                             *)
RebuildCache ==
  /\ rpc = "finally"
  /\ uncached' = IF total > 0 THEN uncached \ allRoles ELSE uncached
  /\ End
  /\ UNCHANGED history

(* The rebuild raises, which is logged. *)
RebuildFails ==
  /\ rpc = "finally"
  /\ total > 0
  /\ outcome' = "stale"
  /\ End
  /\ UNCHANGED <<uncached, excused, overlapped>>

(* The command is killed: the finally block does not run. *)
Killed ==
  /\ rpc # "off"
  /\ outcome' = "killed"
  /\ End
  /\ UNCHANGED <<uncached, excused, overlapped>>

CommandStep ==
  \/ LoadCursor \/ FetchPage \/ CreateGlobals \/ CreateObjects \/ Advance
  \/ FinishType \/ PageFails \/ RebuildCache \/ RebuildFails

Upstream ==
  \E t \in AssignmentType :
    \/ Insert(t)
    \/ \E pk \in Pk : Commit(t, pk) \/ Delete(t, pk)

Next == Begin \/ CommandStep \/ Killed \/ Upstream

Spec == Init /\ [][Next]_vars

(* The command is one sequential process that keeps running. *)
FairSpec == Spec /\ WF_vars(CommandStep)

-----------------------------------------------------------------------------
(* Types; a page that is being copied has at least one row, since an empty *)
(* page ends the type (_paginate_and_create).                              *)
TypeOK ==
  /\ rows \in [AssignmentType -> SUBSET Pk]
  /\ inflight \in [AssignmentType -> SUBSET Pk]
  /\ next \in [AssignmentType -> 1..(MaxPk + 1)]
  /\ assigned \in [Row -> Nat]
  /\ cursor \in [AssignmentType -> 0..MaxPk]
  /\ uncached \subseteq ObjectRole
  /\ rpc \in {"off", "load", "fetch", "globals", "objects", "advance", "finally"}
  /\ at \in AssignmentType
  /\ idgt \in 0..MaxPk
  /\ page \subseteq Pk
  /\ rpc \in {"globals", "objects", "advance"} => page # {}
  /\ created \in Nat /\ total \in Nat
  /\ roles \subseteq ObjectRole /\ allRoles \subseteq ObjectRole
  /\ outcome \in {"none", "running", "returned", "raised", "stale", "killed"}
  /\ excused \subseteq ObjectRole
  /\ overlapped \subseteq Row

(***************************************************************************)
(* The stored cursor never runs ahead of the work: a row at or below it,   *)
(* which no later run will ask for again, has its gateway assignment       *)
(* unless the gateway lacks its role, actor or object, or the row was not  *)
(* committed when a page beyond it was read.  Runs that were killed,       *)
(* raised, failed to store or failed to load the cursor and rows that came *)
(* and went meanwhile do not matter.                                       *)
(***************************************************************************)
NoAssignmentLost ==
  \A t \in AssignmentType : \A pk \in rows[t] :
    /\ pk <= cursor[t]
    /\ <<t, pk>> \notin Unresolvable \cup overlapped
    => assigned[<<t, pk>>] > 0

(***************************************************************************)
(* Reprocessing is idempotent: no row is ever turned into two gateway      *)
(* assignments, global ones included, for which the database has no        *)
(* constraint that would object.                                           *)
(***************************************************************************)
NoDuplicateAssignment == \A r \in Row : assigned[r] <= 1

(***************************************************************************)
(* The finally block: an invocation that returned or raised, and whose     *)
(* rebuild did not itself fail, leaves no object role it touched with a    *)
(* stale permission cache, except those of the type in which it raised,    *)
(* which had not been handed to the block.                                 *)
(***************************************************************************)
RunRebuiltCache ==
  rpc = "off" /\ outcome \in {"returned", "raised"} => uncached \subseteq excused

(***************************************************************************)
(* "new assignments get higher PKs and appear on subsequent pages. The only*)
(* undetected window is assignments created during the final page's        *)
(* processing" (role_assignments.py:297-299).  What the code gives: when   *)
(* the loop over a type sees an empty page, each visible row that resolves *)
(* is assigned, or its transaction was still open when a page with a higher*)
(* id was read, by this invocation or one before.                          *)
(***************************************************************************)
EmptyPageMeansComplete ==
  [][rpc = "fetch" /\ (rpc' = "load" \/ outcome' = "returned") =>
       \A pk \in rows[at] :
         <<at, pk>> \notin Unresolvable \cup overlapped =>
           assigned[<<at, pk>>] > 0]_vars

(***************************************************************************)
(* The sliding window comes to the end of the table and the invocation     *)
(* ends, also while rows are being added.                                  *)
(***************************************************************************)
RunEnds == (rpc = "load") ~> (rpc = "off")
=============================================================================
