------------------------ MODULE RoleAssignmentsProofs ------------------------
(***************************************************************************)
(* Proofs about RoleAssignments, for any number of rows, any page size and *)
(* any mix of global, unresolvable and already known assignments.          *)
(***************************************************************************)
EXTENDS RoleAssignments, FiniteSetTheorems, TLAPS

(* The command is in the loop of _paginate_and_create. *)
InLoop == rpc \in {"fetch", "globals", "objects", "advance"}
HasPage == rpc \in {"globals", "objects", "advance"}

-----------------------------------------------------------------------------
LEMMA RowIsFinite == IsFiniteSet(Row)
<1>1. IsFiniteSet(AssignmentType)
  <2>1. IsFiniteSet({"user"})
    BY FS_Singleton
  <2>2. IsFiniteSet({"user"} \cup {"team"})
    BY <2>1, FS_AddElement
  <2>3. AssignmentType = {"user"} \cup {"team"}
    BY DEF AssignmentType
  <2> QED
    BY <2>2, <2>3
<1>2. IsFiniteSet(Pk)
  BY RoleAssumption, FS_Interval DEF Pk
<1> QED
  BY <1>1, <1>2, FS_Product DEF Row

LEMMA SetOfRows ==
  ASSUME NEW s \in SUBSET Row
  PROVE  /\ Cardinality(s) \in Nat
         /\ s # {} => Cardinality(s) > 0
<1>1. IsFiniteSet(s)
  BY RowIsFinite, FS_Subset
<1>2. Cardinality(s) \in Nat
  BY <1>1, FS_CardinalityType
<1>3. Cardinality(s) = 0 <=> s = {}
  BY <1>1, FS_EmptySet
<1> QED
  BY <1>2, <1>3

(* The rows of a page that resolve are rows. *)
LEMMA ResolvedRows == TypeOK => Resolved \subseteq Row
  BY DEF TypeOK, Resolved, Row

-----------------------------------------------------------------------------
LEMMA TypeInit == Init => TypeOK
  BY RoleAssumption DEF Init, TypeOK, AssignmentType, Pk

LEMMA TypeStep == TypeOK /\ [Next]_vars => TypeOK'
<1> SUFFICES ASSUME TypeOK, [Next]_vars PROVE TypeOK'
  OBVIOUS
<1> USE RoleAssumption
<1>1. CASE Begin
  BY <1>1 DEF Begin, TypeOK, upstream
<1>2. CASE LoadCursor
  BY <1>2 DEF LoadCursor, TypeOK, upstream, history
<1>3. CASE FetchPage
  <2>1. PICK p \in SUBSET Pk : page' = p /\ p # {} /\
                              overlapped' = overlapped \cup Overtaken(p)
    BY <1>3 DEF FetchPage
  <2>2. Overtaken(p) \subseteq Row
    BY DEF Overtaken, TypeOK, Row
  <2> QED
    BY <1>3, <2>1, <2>2 DEF FetchPage, TypeOK, upstream
<1>4. CASE CreateGlobals
  <2> DEFINE new == {r \in Resolved \cap GlobalRow : assigned[r] = 0}
  <2>1. new \in SUBSET Row
    BY ResolvedRows
  <2>2. Cardinality(new) \in Nat
    BY <2>1, SetOfRows
  <2>3. created' = created + Cardinality(new)
    BY <1>4 DEF CreateGlobals
  <2>4. assigned' \in [Row -> Nat]
    BY <1>4 DEF CreateGlobals, TypeOK
  <2> QED
    BY <1>4, <2>2, <2>3, <2>4 DEF CreateGlobals, TypeOK, upstream, history
<1>5. CASE CreateObjects
  <2> DEFINE want == Resolved \ GlobalRow
             new == {r \in want : assigned[r] = 0}
  <2>1. want \in SUBSET Row
    BY ResolvedRows
  <2>2. Cardinality(want) \in Nat
    BY <2>1, SetOfRows
  <2>3. created' = created + Cardinality(want)
    BY <1>5 DEF CreateObjects
  <2>4. assigned' \in [Row -> Nat]
    BY <1>5 DEF CreateObjects, TypeOK
  <2>5. /\ roles' = roles \cup {ObjectRoleOf[r] : r \in want}
        /\ uncached' = uncached \cup {ObjectRoleOf[r] : r \in new}
    BY <1>5 DEF CreateObjects
  <2>6. roles' \subseteq ObjectRole /\ uncached' \subseteq ObjectRole
    BY <2>1, <2>5 DEF TypeOK
  <2> QED
    BY <1>5, <2>2, <2>3, <2>4, <2>6 DEF CreateObjects, TypeOK, upstream, history
<1>6. CASE Advance
  BY <1>6 DEF Advance, TypeOK, upstream, history, Pk
<1>7. CASE FinishType
  BY <1>7 DEF FinishType, TypeOK, upstream, AssignmentType
<1>8. CASE PageFails
  BY <1>8 DEF PageFails, TypeOK, upstream
<1>9. CASE RebuildCache
  BY <1>9 DEF RebuildCache, End, TypeOK, upstream, history, AssignmentType
<1>10. CASE RebuildFails \/ Killed
  BY <1>10 DEF RebuildFails, Killed, End, TypeOK, upstream, AssignmentType
<1>11. CASE Upstream
  <2> PICK t \in AssignmentType :
        Insert(t) \/ \E pk \in Pk : Commit(t, pk) \/ Delete(t, pk)
    BY <1>11 DEF Upstream
  <2>1. CASE Insert(t)
    BY <2>1 DEF Insert, TypeOK, command, history, Pk
  <2>2. CASE \E pk \in Pk : Commit(t, pk)
    BY <2>2 DEF Commit, TypeOK, command, history
  <2>3. CASE \E pk \in Pk : Delete(t, pk)
    BY <2>3 DEF Delete, TypeOK, command, history
  <2> QED
    BY <2>1, <2>2, <2>3
<1>12. CASE UNCHANGED vars
  BY <1>12 DEF vars, upstream, command, history, TypeOK
<1> QED
  BY <1>1, <1>2, <1>3, <1>4, <1>5, <1>6, <1>7, <1>8, <1>9, <1>10, <1>11,
     <1>12 DEF Next, CommandStep

(***************************************************************************)
(* Every variable keeps its type; in particular the loop never goes on     *)
(* with an empty page, whose last id Advance would need.                   *)
(***************************************************************************)
THEOREM TypeCorrect == Spec => []TypeOK
  BY TypeInit, TypeStep, PTL DEF Spec

(* Until it reaches the finally block, a run has no outcome. *)
Running == rpc \notin {"off", "finally"} => outcome = "running"

LEMMA RunningInvariant == Spec => []Running
<1>1. Init => Running
  BY DEF Init, Running
<1>2. Running /\ [Next]_vars => Running'
  BY DEF Next, CommandStep, Begin, LoadCursor, FetchPage, CreateGlobals,
         CreateObjects, Advance, FinishType, PageFails, RebuildCache,
         RebuildFails, Killed, End, Upstream, Insert, Commit, Delete, upstream,
         command, history, vars, Running
<1> QED
  BY <1>1, <1>2, PTL DEF Spec

-----------------------------------------------------------------------------
(***************************************************************************)
(* Reprocessing never makes a second assignment of a row, whatever order   *)
(* pages, failed cursors, kills and repeated runs come in: a global row is *)
(* filtered out if it exists, a row with an object meets the constraint.   *)
(***************************************************************************)
THEOREM NoDuplicates == Spec => []NoDuplicateAssignment
<1>1. Init => NoDuplicateAssignment
  BY DEF Init, NoDuplicateAssignment
<1>2. TypeOK /\ NoDuplicateAssignment /\ [Next]_vars => NoDuplicateAssignment'
  <2> SUFFICES ASSUME TypeOK, NoDuplicateAssignment, [Next]_vars
               PROVE  NoDuplicateAssignment'
    OBVIOUS
  <2>1. CASE CreateGlobals
    BY <2>1 DEF CreateGlobals, NoDuplicateAssignment, TypeOK
  <2>2. CASE CreateObjects
    BY <2>2 DEF CreateObjects, NoDuplicateAssignment, TypeOK
  <2>3. CASE UNCHANGED assigned
    BY <2>3 DEF NoDuplicateAssignment
  <2> QED
    BY <2>1, <2>2, <2>3
    DEF Next, CommandStep, Begin, LoadCursor, FetchPage, Advance, FinishType,
        PageFails, RebuildCache, RebuildFails, Killed, End, Upstream, Insert,
        Commit, Delete, vars
<1> QED
  BY <1>1, <1>2, TypeCorrect, PTL DEF Spec

-----------------------------------------------------------------------------
(***************************************************************************)
(* Why no other assignment is lost.  Up to the window's lower edge every   *)
(* row is settled; the page holds all rows between that edge and its last  *)
(* one; and a row that becomes visible later has an id above everything    *)
(* the command has looked at, or was in flight when the command looked.    *)
(***************************************************************************)
RowDone(t, pk) ==
  <<t, pk>> \notin Unresolvable \cup overlapped => assigned[<<t, pk>>] > 0

WindowSettled ==
  InLoop => \A pk \in rows[at] : pk <= idgt => RowDone(at, pk)

PageIsClosed ==
  HasPage => \A pk \in rows[at], x \in page :
               pk > idgt /\ pk <= x => pk \in page \/ <<at, pk>> \in overlapped

PageProgress ==
  /\ rpc = "objects" =>
       \A pk \in page : <<at, pk>> \in GlobalRow => RowDone(at, pk)
  /\ rpc = "advance" => \A pk \in page : RowDone(at, pk)

SeenIsOld ==
  \A t \in AssignmentType :
    /\ cursor[t] < next[t]
    /\ \A pk \in rows[t] : pk < next[t]
    /\ t = at /\ InLoop => idgt < next[t]
    /\ t = at /\ HasPage => \A pk \in page : pk < next[t]
    /\ \A q \in inflight[t] :
         /\ q < next[t]
         /\ q \notin rows[t]
         /\ t = at /\ HasPage => q \notin page
         /\ <<t, q>> \notin overlapped =>
              /\ cursor[t] < q
              /\ t = at /\ InLoop => idgt < q
              /\ t = at /\ HasPage => \A pk \in page : pk < q

LostInv == /\ TypeOK /\ NoAssignmentLost /\ WindowSettled /\ PageIsClosed
           /\ PageProgress /\ SeenIsOld

LEMMA LostInit == Init => LostInv
<1> SUFFICES ASSUME Init PROVE LostInv
  OBVIOUS
<1>1. TypeOK
  BY TypeInit
<1> QED
  BY <1>1, RoleAssumption
  DEF Init, LostInv, NoAssignmentLost, WindowSettled, PageIsClosed,
      PageProgress, SeenIsOld, InLoop, HasPage, AssignmentType

LEMMA LostStep ==
  ASSUME LostInv, [Next]_vars PROVE LostInv'
<1> USE DEF LostInv
<1>0. TypeOK'
  BY TypeStep
<1>1. CASE Begin
  BY <1>0, <1>1
  DEF Begin, upstream, history, NoAssignmentLost, WindowSettled, PageIsClosed,
      PageProgress, SeenIsOld, InLoop, HasPage, RowDone
<1>2. CASE LoadCursor
  BY <1>0, <1>2, RoleAssumption
  DEF LoadCursor, upstream, history, NoAssignmentLost, WindowSettled, PageIsClosed,
      PageProgress, SeenIsOld, InLoop, HasPage, RowDone, TypeOK, Pk
<1>3. CASE FetchPage
  <2>1. PICK p \in SUBSET Pk :
          IsPage(p, at, idgt) /\ page' = p /\ overlapped' = overlapped \cup Overtaken(p)
    BY <1>3 DEF FetchPage
  <2>2. /\ overlapped \subseteq overlapped'
        /\ \A q \in inflight[at] :
             (\E pk \in p : q < pk) => <<at, q>> \in overlapped'
    BY <2>1 DEF Overtaken
  <2>3. /\ p \subseteq rows[at]
        /\ \A x \in p, y \in rows[at] : y > idgt /\ y <= x => y \in p
    BY <2>1 DEF IsPage, TypeOK, Pk
  <2>4. /\ rpc = "fetch" /\ rpc' = "globals"
        /\ UNCHANGED <<rows, inflight, next, assigned, cursor, at, idgt>>
    BY <1>3 DEF FetchPage, upstream
  <2>5. NoAssignmentLost' /\ WindowSettled'
    BY <2>2, <2>4 DEF NoAssignmentLost, WindowSettled, InLoop, RowDone
  <2>6. PageIsClosed' /\ PageProgress'
    BY <2>1, <2>3, <2>4 DEF PageIsClosed, PageProgress, HasPage
  <2>7. SeenIsOld'
    BY <2>1, <2>2, <2>3, <2>4
    DEF SeenIsOld, InLoop, HasPage, TypeOK, Pk
  <2> QED
    BY <1>0, <2>5, <2>6, <2>7
<1>4. CASE CreateGlobals
  BY <1>0, <1>4
  DEF CreateGlobals, upstream, history, NoAssignmentLost, WindowSettled, PageIsClosed,
      PageProgress, SeenIsOld, InLoop, HasPage, RowDone, TypeOK, Resolved, Row, Pk
<1>5. CASE CreateObjects
  BY <1>0, <1>5
  DEF CreateObjects, upstream, history, NoAssignmentLost, WindowSettled, PageIsClosed,
      PageProgress, SeenIsOld, InLoop, HasPage, RowDone, TypeOK, Resolved, Row, Pk
<1>6. CASE Advance
  BY <1>0, <1>6
  DEF Advance, upstream, history, NoAssignmentLost, WindowSettled, PageIsClosed,
      PageProgress, SeenIsOld, InLoop, HasPage, RowDone, TypeOK, Pk
<1>7. CASE FinishType
  BY <1>0, <1>7
  DEF FinishType, upstream, history, NoAssignmentLost, WindowSettled, PageIsClosed,
      PageProgress, SeenIsOld, InLoop, HasPage, RowDone
<1>8. CASE PageFails
  BY <1>0, <1>8
  DEF PageFails, upstream, history, NoAssignmentLost, WindowSettled, PageIsClosed,
      PageProgress, SeenIsOld, InLoop, HasPage, RowDone
<1>9. CASE RebuildCache \/ RebuildFails \/ Killed
  BY <1>0, <1>9
  DEF RebuildCache, RebuildFails, Killed, End, upstream, history, NoAssignmentLost,
      WindowSettled, PageIsClosed, PageProgress, SeenIsOld, InLoop, HasPage,
      RowDone
<1>10. CASE Upstream
  <2> PICK t \in AssignmentType :
        Insert(t) \/ \E pk \in Pk : Commit(t, pk) \/ Delete(t, pk)
    BY <1>10 DEF Upstream
  <2>1. CASE Insert(t)
    BY <1>0, <2>1
    DEF Insert, command, history, NoAssignmentLost, WindowSettled, PageIsClosed,
        PageProgress, SeenIsOld, InLoop, HasPage, RowDone, TypeOK, Pk
  <2>2. CASE \E pk \in Pk : Commit(t, pk)
    <3> PICK q \in Pk : Commit(t, q)
      BY <2>2
    <3>1. /\ q \in inflight[t]
          /\ inflight' = [inflight EXCEPT ![t] = @ \ {q}]
          /\ rows' = [rows EXCEPT ![t] = @ \cup {q}]
          /\ UNCHANGED <<next, assigned, cursor, rpc, at, idgt, page, overlapped>>
      BY DEF Commit, command, history
    <3>2. /\ \A u \in AssignmentType : rows'[u] \subseteq rows[u] \cup {q}
          /\ \A u \in AssignmentType \ {t} : rows'[u] = rows[u]
          /\ \A u \in AssignmentType : inflight'[u] \subseteq inflight[u]
          /\ q \notin inflight'[t]
      BY <3>1 DEF TypeOK
    <3>3. NoAssignmentLost' /\ WindowSettled'
      BY <3>1, <3>2
      DEF NoAssignmentLost, WindowSettled, SeenIsOld, InLoop, RowDone, TypeOK, Pk
    <3>4. PageIsClosed' /\ PageProgress'
      BY <3>1, <3>2
      DEF PageIsClosed, PageProgress, SeenIsOld, HasPage, InLoop, RowDone, TypeOK, Pk
    <3>5. SeenIsOld'
      <4>1. \A u \in AssignmentType : \A pk \in rows'[u] : pk < next[u]
        BY <3>1, <3>2 DEF SeenIsOld
      <4>2. \A u \in AssignmentType : \A x \in inflight'[u] :
              x \in inflight[u] /\ x \notin rows'[u]
        BY <3>1, <3>2 DEF SeenIsOld
      <4> QED
        BY <3>1, <4>1, <4>2 DEF SeenIsOld, HasPage, InLoop
    <3> QED
      BY <1>0, <3>3, <3>4, <3>5
  <2>3. CASE \E pk \in Pk : Delete(t, pk)
    BY <1>0, <2>3
    DEF Delete, command, history, NoAssignmentLost, WindowSettled, PageIsClosed,
        PageProgress, SeenIsOld, InLoop, HasPage, RowDone, TypeOK, Pk
  <2> QED
    BY <2>1, <2>2, <2>3
<1>11. CASE UNCHANGED vars
  BY <1>0, <1>11
  DEF vars, upstream, command, history, NoAssignmentLost, WindowSettled, PageIsClosed,
      PageProgress, SeenIsOld, InLoop, HasPage, RowDone
<1> QED
  BY <1>1, <1>2, <1>3, <1>4, <1>5, <1>6, <1>7, <1>8, <1>9, <1>10, <1>11
  DEF Next, CommandStep

LEMMA LostInvariant == Spec => []LostInv
<1>1. LostInv /\ [Next]_vars => LostInv'
  BY LostStep
<1> QED
  BY <1>1, LostInit, PTL DEF Spec

(***************************************************************************)
(* The stored cursor never passes a row that could have been copied and    *)
(* was not, whatever order the service commits in: only a row that was in  *)
(* flight when a page beyond it was read can be missed.                    *)
(***************************************************************************)
THEOREM NothingLost == Spec => []NoAssignmentLost
<1>1. LostInv => NoAssignmentLost
  BY DEF LostInv
<1> QED
  BY <1>1, LostInvariant, PTL

(***************************************************************************)
(* What remains of the docstring's claim: when the loop over a type sees   *)
(* an empty page, every visible row that resolves is assigned, except rows *)
(* whose transaction was open when a page with a higher id was read.       *)
(***************************************************************************)
THEOREM EmptyPageIsComplete == Spec => EmptyPageMeansComplete
<1>1. LostInv /\ Running /\ [Next]_vars =>
        [rpc = "fetch" /\ (rpc' = "load" \/ outcome' = "returned") =>
           \A pk \in rows[at] :
             <<at, pk>> \notin Unresolvable \cup overlapped =>
               assigned[<<at, pk>>] > 0]_vars
  <2> SUFFICES ASSUME LostInv, Running, [Next]_vars, rpc = "fetch",
                      rpc' = "load" \/ outcome' = "returned", ~UNCHANGED vars
               PROVE  \A pk \in rows[at] : RowDone(at, pk)
    BY DEF RowDone
  <2>1. CASE FinishType
    BY <2>1 DEF FinishType, LostInv, WindowSettled, InLoop
  <2> QED
    BY <2>1
    DEF Next, CommandStep, Begin, LoadCursor, FetchPage, CreateGlobals,
        CreateObjects, Advance, PageFails, RebuildCache, RebuildFails, Killed,
        End, Upstream, Insert, Commit, Delete, upstream, command, history, vars, Running
<1> QED
  BY <1>1, LostInvariant, RunningInvariant, PTL DEF Spec, EmptyPageMeansComplete

-----------------------------------------------------------------------------
(***************************************************************************)
(* Why a run leaves the cache fresh: the object roles it gave assignments  *)
(* to are in `roles` or `allRoles`, and the test total > 0 does not skip   *)
(* them, since a role is collected only with a row counted.                *)
(***************************************************************************)
CacheInv ==
  /\ InLoop => uncached \subseteq excused \cup allRoles \cup roles
  /\ rpc = "load" \/ (rpc = "finally" /\ outcome \in {"returned", "raised"}) =>
       uncached \subseteq excused \cup allRoles
  /\ InLoop /\ roles # {} => created > 0
  /\ allRoles # {} => total > 0
  /\ RunRebuiltCache

LEMMA CacheStep ==
  ASSUME TypeOK, Running, CacheInv, [Next]_vars PROVE CacheInv'
<1> USE DEF CacheInv, RunRebuiltCache, InLoop, Running
<1>1. CASE Begin
  BY <1>1 DEF Begin
<1>2. CASE LoadCursor
  BY <1>2 DEF LoadCursor, history
<1>3. CASE FetchPage \/ CreateGlobals \/ Advance
  <2>1. ~(created > 0) \/ created' > 0
    <3>1. CASE CreateGlobals
      <4> DEFINE new == {r \in Resolved \cap GlobalRow : assigned[r] = 0}
      <4>1. new \in SUBSET Row
        BY ResolvedRows
      <4>2. Cardinality(new) \in Nat
        BY <4>1, SetOfRows
      <4>3. created' = created + Cardinality(new)
        BY <3>1 DEF CreateGlobals
      <4> HIDE DEF new
      <4> QED
        BY <4>2, <4>3 DEF TypeOK
    <3> QED
      BY <1>3, <3>1 DEF FetchPage, Advance
  <2> QED
    BY <1>3, <2>1 DEF FetchPage, CreateGlobals, Advance, history
<1>4. CASE CreateObjects
  <2> DEFINE want == Resolved \ GlobalRow
             new == {r \in want : assigned[r] = 0}
  <2>1. want \in SUBSET Row
    BY ResolvedRows
  <2>2. Cardinality(want) \in Nat /\ (want # {} => Cardinality(want) > 0)
    BY <2>1, SetOfRows
  <2>3. /\ created' = created + Cardinality(want)
        /\ roles' = roles \cup {ObjectRoleOf[r] : r \in want}
        /\ uncached' = uncached \cup {ObjectRoleOf[r] : r \in new}
    BY <1>4 DEF CreateObjects
  <2>4. roles' # {} => created' > 0
    BY <1>4, <2>2, <2>3 DEF CreateObjects, TypeOK
  <2>5. uncached' \subseteq excused \cup allRoles \cup roles'
    BY <1>4, <2>3 DEF CreateObjects
  <2> QED
    BY <1>4, <2>4, <2>5 DEF CreateObjects, history
<1>5. CASE FinishType
  BY <1>5 DEF FinishType, TypeOK
<1>6. CASE PageFails
  BY <1>6 DEF PageFails
<1>7. CASE RebuildCache
  BY <1>7 DEF RebuildCache, End, history
<1>8. CASE RebuildFails \/ Killed
  BY <1>8 DEF RebuildFails, Killed, End
<1>9. CASE Upstream \/ UNCHANGED vars
  BY <1>9 DEF Upstream, Insert, Commit, Delete, vars, command, history
<1> QED
  BY <1>1, <1>2, <1>3, <1>4, <1>5, <1>6, <1>7, <1>8, <1>9 DEF Next, CommandStep

(***************************************************************************)
(* A run that returned or raised, and whose rebuild did not fail, leaves   *)
(* no object role it touched with a stale permission cache, except those   *)
(* of the type in which it raised.                                         *)
(***************************************************************************)
THEOREM CacheRebuilt == Spec => []RunRebuiltCache
<1>1. Init => CacheInv
  BY DEF Init, CacheInv, InLoop, RunRebuiltCache
<1>2. TypeOK /\ Running /\ CacheInv /\ [Next]_vars => CacheInv'
  BY CacheStep
<1>3. CacheInv => RunRebuiltCache
  BY DEF CacheInv
<1> QED
  BY <1>1, <1>2, <1>3, TypeCorrect, RunningInvariant, PTL DEF Spec
=============================================================================
