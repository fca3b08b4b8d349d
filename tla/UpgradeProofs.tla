---------------------------- MODULE UpgradeProofs ----------------------------
(***************************************************************************)
(* What moves data to a new release, proved.  First the resource migration *)
(* and the command around it, for any number of services, resources, pages *)
(* and workers, whatever the gateway holds at the start, through any       *)
(* sequence of failed, killed and repeated runs.  Then the rehearsal of an *)
(* upgrade, for any number of stages, any migrations and any policy,       *)
(* wherever a command fails.                                               *)
(***************************************************************************)
EXTENDS MigrateServiceData, MigrationUpgrade, FiniteSetTheorems, TLAPS

(***************************************************************************)
(* ResourceMigration: what it hands over is managed by the gateway.        *)
(***************************************************************************)
Running == phase \in {"fetch", "create", "send"}

(* The gateway has the object of row i under the id a. *)
Backed(i, a) == \E r \in gw : /\ r.aid = a
                              /\ r.type = TypeOf[i]
                              /\ r.name = NameOf[i]
                              /\ r.parent = ParentAid(i)

(* The gateway's database is consistent and owns all its rows. *)
GatewayConsistent == UniqueRows(gw) /\ \A r \in gw : r.sid = Gateway

(* The plan is about rows of the page, one entry for each. *)
PlanOfPage ==
  /\ IsFiniteSet(plan)
  /\ phase \notin {"create", "send"} => plan = {}
  /\ phase = "create" => todo = {}
  /\ \A p, q \in plan : p.item = q.item => p = q
  /\ \A p \in plan : /\ ServiceOf[p.item] = svc
                     /\ TypeOf[p.item] = TypeOrder[typ]
                     /\ p.sid = Gateway
                     /\ p.parent = ParentAid(p.item)

(* What is to be merged is backed already, ... *)
PlanBeforeCreate ==
  phase = "create" =>
    \A p \in plan : /\ ~Migrated(p.item)
                    /\ p.create \/ Backed(p.item, p.target)

(* ... and after the transaction all of the page is: only then is it sent. *)
PlanBeforeSend ==
  phase = "send" =>
    \A p \in plan : /\ Backed(p.item, p.target)
                    /\ Migrated(p.item) => up[p.item].aid = p.target

(* A row belongs to its service until it is the gateway's. *)
OwnerOrGateway == \A i \in Item : Migrated(i) \/ up[i].sid = ServiceOf[i]

(* A team is handed over after its organization, which then keeps its id. *)
ParentsFirst ==
  \A i \in Item : Migrated(i) /\ ParentOf[i] # NoParent => Migrated(ParentOf[i])

(* The types before the current one are finished for this service. *)
EarlierTypesDone ==
  Running =>
    \A i \in Item, n \in 1..(typ - 1) :
      ServiceOf[i] = svc /\ TypeOf[i] = TypeOrder[n] /\ i \notin SystemUser =>
        Migrated(i)

IndInv == /\ TypeOK
          /\ GatewayConsistent
          /\ PlanOfPage /\ PlanBeforeCreate /\ PlanBeforeSend
          /\ OwnerOrGateway /\ ParentsFirst /\ EarlierTypesDone
          /\ ManagedByGateway /\ DoneMeansMigrated

-----------------------------------------------------------------------------
LEMMA OrderOfTypes ==
  /\ Len(TypeOrder) = 5
  /\ TypeOrder[1] = "organization"
  /\ \A n \in 1..5 : TypeOrder[n] \in ResourceType
  /\ \A t \in ResourceType : \E n \in 1..5 : TypeOrder[n] = t
  /\ \A m, n \in 1..5 : TypeOrder[m] = TypeOrder[n] => m = n
  BY DEF TypeOrder, ResourceType

LEMMA InitInv == Init => IndInv
<1> SUFFICES ASSUME Init PROVE IndInv
  OBVIOUS
<1>1. TypeOK
  BY ConstantsAssumption, InitialGatewaysAssumption, OrderOfTypes
  DEF Init, TypeOK, Phases, MaxTransientRetries, MaxZeroProgressPages
<1>2. \A i \in Item : ~Migrated(i)
  BY ConstantsAssumption DEF Init, Migrated
<1>3. IsFiniteSet(plan)
  BY FS_EmptySet DEF Init
<1> QED
  BY <1>1, <1>2, <1>3, InitialGatewaysAssumption
  DEF Init, IndInv, GatewayConsistent, PlanOfPage, PlanBeforeCreate,
      PlanBeforeSend, OwnerOrGateway, ParentsFirst, EarlierTypesDone,
      ManagedByGateway, DoneMeansMigrated, Running

-----------------------------------------------------------------------------
(***************************************************************************)
(* The loop sees one page only.  A page of nothing but system users has at *)
(* most one row, which is less than a page holds, so it was all there is.  *)
(***************************************************************************)
LEMMA LastPage ==
  ASSUME NEW s, NEW t, NEW page \in Pages(s, t), page \subseteq SystemUser
  PROVE  Unmigrated(s, t) \subseteq SystemUser
<1> DEFINE rows == Unmigrated(s, t)
<1>1. IsFiniteSet(rows)
  <2>1. rows \in SUBSET Item
    BY DEF Unmigrated
  <2> QED
    BY <2>1, ConstantsAssumption, FS_Subset
<1>2. page \in SUBSET rows
  BY DEF Pages
<1>3. /\ Cardinality(rows) \in Nat
      /\ IsFiniteSet(page)
      /\ Cardinality(page) = Cardinality(rows) => page = rows
  BY <1>1, <1>2, FS_Subset, FS_CardinalityType
<1>4. Cardinality(page) < PageSize
  <2>1. CASE page = {}
    BY <2>1, FS_EmptySet, ConstantsAssumption
  <2>2. CASE page # {}
    <3> PICK x \in page : TRUE
      BY <2>2
    <3>1. page = {x}
      BY <1>2, SystemUserAssumption DEF Unmigrated
    <3> QED
      BY <3>1, FS_Singleton, ConstantsAssumption
  <2> QED
    BY <2>1, <2>2
<1>5. Cardinality(page) = IF Cardinality(rows) < PageSize
                            THEN Cardinality(rows) ELSE PageSize
  BY DEF Pages
<1>6. page = rows
  BY <1>3, <1>4, <1>5, ConstantsAssumption
<1> QED
  BY <1>6

(***************************************************************************)
(* What a bulk update can do while a page is sent: it re-identifies and    *)
(* hands over rows of the plan, touches no row handed over before, and no  *)
(* organization of a row that is handed over or planned.                   *)
(***************************************************************************)
LEMMA BulkEffect ==
  ASSUME IndInv, phase = "send", NEW done \in SUBSET plan, BulkUpdate(done)
  PROVE  /\ up' \in [Item -> [aid : AnsibleId, sid : Service \cup {Gateway}]]
         /\ \A i \in Item :
              \/ up'[i] = up[i]
              \/ \E p \in done : /\ p.item = i
                                 /\ up'[i].aid = p.target
                                 /\ up'[i].sid = Gateway
         /\ \A i \in Item : Migrated(i) =>
              up'[i].aid = up[i].aid /\ up'[i].sid = Gateway
         /\ \A p \in plan : ParentAid(p.item)' = ParentAid(p.item)
         /\ \A i \in Item : Migrated(i) => ParentAid(i)' = ParentAid(i)
<1> USE DEF IndInv
<1>1. up' = [i \in Item |->
               IF \E p \in done : p.item = i
                 THEN LET p == CHOOSE p \in done : p.item = i
                      IN [aid |-> p.target, sid |-> p.sid]
                 ELSE up[i]]
  BY DEF BulkUpdate
<1>2. \A i \in Item :
        \/ up'[i] = up[i] /\ ~ \E p \in done : p.item = i
        \/ \E p \in done : p.item = i /\ up'[i] = [aid |-> p.target, sid |-> p.sid]
  BY <1>1
<1>3. \A p \in plan : p \in PlanItem /\ p.sid = Gateway
  BY DEF TypeOK, PlanOfPage
<1>4. \A i \in Item :
        \/ up'[i] = up[i] /\ ~ \E p \in done : p.item = i
        \/ \E p \in done : /\ p.item = i
                           /\ up'[i].aid = p.target
                           /\ up'[i].sid = Gateway
                           /\ up'[i] \in [aid : AnsibleId, sid : Service \cup {Gateway}]
  <2> SUFFICES ASSUME NEW p \in done, NEW i \in Item,
                      up'[i] = [aid |-> p.target, sid |-> p.sid]
               PROVE  /\ up'[i].aid = p.target
                      /\ up'[i].sid = Gateway
                      /\ up'[i] \in [aid : AnsibleId, sid : Service \cup {Gateway}]
    BY <1>2
  <2>1. p.target \in AnsibleId /\ p.sid = Gateway
    BY <1>3 DEF PlanItem
  <2> QED
    BY <2>1
<1>5. up' \in [Item -> [aid : AnsibleId, sid : Service \cup {Gateway}]]
  <2>1. \A i \in Item : up'[i] \in [aid : AnsibleId, sid : Service \cup {Gateway}]
    BY <1>4 DEF TypeOK
  <2> QED
    BY <1>1, <2>1
<1>6. \A i \in Item : Migrated(i) => up'[i].aid = up[i].aid /\ up'[i].sid = Gateway
  BY <1>4 DEF Migrated, PlanBeforeSend
<1>7. \A p \in plan : ParentAid(p.item)' = ParentAid(p.item)
  <2> SUFFICES ASSUME NEW p \in plan, ParentOf[p.item] # NoParent
               PROVE  up'[ParentOf[p.item]] = up[ParentOf[p.item]]
    BY DEF ParentAid
  <2>1. p.item \in Item /\ ParentOf[p.item] \in Item
    BY <1>3, ConstantsAssumption DEF PlanItem
  <2>2. TypeOf[p.item] = "team" /\ TypeOf[ParentOf[p.item]] = "organization"
    BY <2>1, ParentAssumption
  <2>3. \A q \in done : q.item # ParentOf[p.item]
    BY <2>2 DEF PlanOfPage
  <2> QED
    BY <1>4, <2>1, <2>3
<1>8. \A i \in Item : Migrated(i) => ParentAid(i)' = ParentAid(i)
  <2> SUFFICES ASSUME NEW i \in Item, Migrated(i), ParentOf[i] # NoParent
               PROVE  up'[ParentOf[i]].aid = up[ParentOf[i]].aid
    BY DEF ParentAid
  <2>1. ParentOf[i] \in Item /\ Migrated(ParentOf[i])
    BY ConstantsAssumption DEF ParentsFirst
  <2> QED
    BY <1>6, <2>1
<1> QED
  BY <1>4, <1>5, <1>6, <1>7, <1>8

(* Hence what is established about rows and plan survives a bulk update. *)
LEMMA BulkKeeps ==
  ASSUME IndInv, phase = "send", NEW done \in SUBSET plan, BulkUpdate(done),
         gw' = gw
  PROVE  /\ OwnerOrGateway' /\ ParentsFirst' /\ ManagedByGateway'
         /\ \A i \in Item : Migrated(i) => Migrated(i)'
         /\ \A p \in plan : /\ ParentAid(p.item)' = ParentAid(p.item)
                            /\ Backed(p.item, p.target)'
                            /\ Migrated(p.item)' => up'[p.item].aid = p.target
<1> USE DEF IndInv
<1>1. \A i \in Item : Migrated(i) => Migrated(i)'
  BY BulkEffect DEF Migrated
<1>2. \A p \in plan : p.item \in Item
  BY DEF TypeOK, PlanItem
<1>3. \A i \in Item : Migrated(i)' =>
        \/ Migrated(i)
        \/ \E p \in done : p.item = i /\ up'[i].aid = p.target
  BY BulkEffect DEF Migrated
<1>4. \A p \in plan : Backed(p.item, p.target)'
  BY BulkEffect DEF Backed, PlanBeforeSend
<1>5. \A p \in plan : Migrated(p.item)' => up'[p.item].aid = p.target
  <2> SUFFICES ASSUME NEW p \in plan, Migrated(p.item)'
               PROVE  up'[p.item].aid = p.target
    OBVIOUS
  <2>1. CASE Migrated(p.item)
    BY <1>2, <2>1, BulkEffect DEF PlanBeforeSend
  <2>2. CASE ~Migrated(p.item)
    BY <1>2, <1>3, <2>2 DEF PlanOfPage
  <2> QED
    BY <2>1, <2>2
<1>6. ManagedByGateway'
  <2> SUFFICES ASSUME NEW i \in Item, Migrated(i)'
               PROVE  \E r \in gw : /\ r.aid = up'[i].aid
                                   /\ r.type = TypeOf[i]
                                   /\ r.name = NameOf[i]
                                   /\ r.parent = ParentAid(i)'
    BY DEF ManagedByGateway
  <2>1. CASE Migrated(i)
    BY <2>1, BulkEffect DEF ManagedByGateway
  <2>2. CASE ~Migrated(i)
    <3> PICK p \in done : p.item = i /\ up'[i].aid = p.target
      BY <1>3, <2>2
    <3> QED
      BY <1>4 DEF Backed
  <2> QED
    BY <2>1, <2>2
<1>7. ParentsFirst'
  <2> SUFFICES ASSUME NEW i \in Item, Migrated(i)', ParentOf[i] # NoParent
               PROVE  Migrated(ParentOf[i])'
    BY DEF ParentsFirst
  <2>1. ParentOf[i] \in Item
    BY ConstantsAssumption
  <2>2. CASE Migrated(i)
    BY <1>1, <2>1, <2>2 DEF ParentsFirst
  <2>3. CASE ~Migrated(i)
    <3> PICK p \in done : p.item = i
      BY <1>3, <2>3
    <3>1. /\ TypeOf[i] = "team" /\ TypeOf[ParentOf[i]] = "organization"
          /\ ServiceOf[ParentOf[i]] = svc
          /\ ParentOf[i] \notin SystemUser
      BY <2>1, ParentAssumption, SystemUserAssumption DEF PlanOfPage
    <3>2. typ \in 1..5 /\ typ # 1
      BY <3>1, OrderOfTypes DEF PlanOfPage, TypeOK
    <3>3. 1 \in 1..(typ - 1)
      BY <3>2
    <3>4. Migrated(ParentOf[i])
      BY <2>1, <3>1, <3>3, OrderOfTypes DEF EarlierTypesDone, Running
    <3> QED
      BY <1>1, <2>1, <3>4
  <2> QED
    BY <2>2, <2>3
<1>8. OwnerOrGateway'
  BY BulkEffect DEF OwnerOrGateway, Migrated
<1> QED
  BY <1>1, <1>4, <1>5, <1>6, <1>7, <1>8, BulkEffect

-----------------------------------------------------------------------------
(* What is said of the rows alone holds as long as they are not touched. *)
LEMMA SameRows ==
  ASSUME IndInv, gw' = gw, up' = up
  PROVE  /\ GatewayConsistent' /\ OwnerOrGateway' /\ ParentsFirst'
         /\ ManagedByGateway'
         /\ \A i : Migrated(i)' = Migrated(i) /\ ParentAid(i)' = ParentAid(i)
  BY DEF IndInv, GatewayConsistent, UniqueRows, OwnerOrGateway, ParentsFirst,
         ManagedByGateway, Migrated, ParentAid

(* No page is being processed. *)
LEMMA NoPage ==
  ASSUME plan' = {}, phase' \notin {"create", "send"}
  PROVE  PlanOfPage' /\ PlanBeforeCreate' /\ PlanBeforeSend'
  BY FS_EmptySet DEF PlanOfPage, PlanBeforeCreate, PlanBeforeSend

(* Leaving migrate_resource for any other phase keeps the invariant, if    *)
(* the phase claims nothing new.                                           *)
LEMMA LeaveKeeps ==
  ASSUME IndInv, NEW p \in {"idle", "failed"}, Leave(p), gw' = gw, svc' = svc,
         typ' = typ, ManagedByGateway', OwnerOrGateway', ParentsFirst',
         up' \in [Item -> [aid : AnsibleId, sid : Service \cup {Gateway}]]
  PROVE  IndInv'
<1> USE DEF IndInv
<1>1. TypeOK'
  BY DEF Leave, TypeOK, Phases, MaxTransientRetries, MaxZeroProgressPages
<1>2. GatewayConsistent'
  BY DEF GatewayConsistent, UniqueRows
<1> QED
  BY <1>1, <1>2, NoPage DEF Leave, EarlierTypesDone, Running, DoneMeansMigrated

LEMMA StartServiceKeeps ==
  ASSUME IndInv, NEW s \in Service, StartService(s)
  PROVE  IndInv'
<1> USE DEF IndInv
<1>1. TypeOK'
  BY OrderOfTypes DEF StartService, pageVars, TypeOK, Phases
<1>2. \A i \in Item : Migrated(i)' = Migrated(i)
  BY SameRows DEF StartService
<1>3. DoneMeansMigrated'
  <2> SUFFICES ASSUME phase' = "done", NEW i \in Item, ServiceOf[i] = s,
                      i \notin SystemUser
               PROVE  Migrated(i)
    BY <1>2 DEF DoneMeansMigrated, StartService
  <2>1. AlreadySynced(s)
    BY DEF StartService
  <2>2. i \notin Unmigrated(s, TypeOf[i])
    BY <2>1, ConstantsAssumption DEF AlreadySynced
  <2> QED
    BY <2>2 DEF Unmigrated, OwnerOrGateway
<1>4. EarlierTypesDone'
  BY DEF StartService, EarlierTypesDone
<1>5. phase' \notin {"create", "send"} /\ plan' = {}
  BY DEF StartService, pageVars, PlanOfPage
<1> QED
  BY <1>1, <1>3, <1>4, <1>5, SameRows, NoPage DEF StartService

LEMMA FetchNothingKeeps ==
  ASSUME IndInv, FetchNothing
  PROVE  IndInv'
<1> USE DEF IndInv
<1>0. typ \in 1..5 /\ Len(TypeOrder) = 5
  BY OrderOfTypes DEF TypeOK
<1>1. TypeOK'
  BY <1>0 DEF FetchNothing, Leave, TypeOK, Phases, MaxTransientRetries,
              MaxZeroProgressPages
<1>2. \A i \in Item : Migrated(i)' = Migrated(i)
  BY SameRows DEF FetchNothing
<1>3. \A i \in Item, n \in 1..typ :
        ServiceOf[i] = svc /\ TypeOf[i] = TypeOrder[n] /\ i \notin SystemUser =>
          Migrated(i)
  <2> SUFFICES ASSUME NEW i \in Item, NEW n \in 1..typ, ServiceOf[i] = svc,
                      TypeOf[i] = TypeOrder[n], i \notin SystemUser
               PROVE  Migrated(i)
    OBVIOUS
  <2>1. CASE n = typ
    <3>1. PICK page \in Pages(svc, TypeOrder[typ]) : page \subseteq SystemUser
      BY DEF FetchNothing
    <3>2. Unmigrated(svc, TypeOrder[typ]) \subseteq SystemUser
      BY <3>1, LastPage
    <3> QED
      BY <2>1, <3>2 DEF Unmigrated, OwnerOrGateway
  <2>2. CASE n # typ
    <3>1. n \in 1..(typ - 1)
      BY <1>0, <2>2
    <3> QED
      BY <3>1 DEF EarlierTypesDone, Running, FetchNothing
  <2> QED
    BY <2>1, <2>2
<1>4. DoneMeansMigrated'
  <2> SUFFICES ASSUME phase' = "done", NEW i \in Item, ServiceOf[i] = svc,
                      i \notin SystemUser
               PROVE  Migrated(i)
    BY <1>2 DEF DoneMeansMigrated, FetchNothing
  <2>1. typ = 5
    BY <1>0 DEF FetchNothing, Leave
  <2>2. PICK n \in 1..5 : TypeOrder[n] = TypeOf[i]
    BY OrderOfTypes, ConstantsAssumption
  <2> QED
    BY <1>3, <2>1, <2>2
<1>5. EarlierTypesDone'
  <2> SUFFICES ASSUME phase' = "fetch"
               PROVE  EarlierTypesDone'
    BY DEF EarlierTypesDone, Running, FetchNothing, Leave
  <2>1. typ' = typ + 1 /\ typ' - 1 = typ
    BY <1>0 DEF FetchNothing, Leave
  <2> QED
    BY <1>2, <1>3, <2>1 DEF EarlierTypesDone, FetchNothing
<1>6. phase' \notin {"create", "send"} /\ plan' = {}
  BY DEF FetchNothing, Leave
<1> QED
  BY <1>1, <1>4, <1>5, <1>6, SameRows, NoPage DEF FetchNothing

(***************************************************************************)
(* One row's plan: its entry is about that row, and if the row is to be    *)
(* merged the gateway has the object it is merged into.                    *)
(***************************************************************************)
LEMMA ReconcileRow ==
  ASSUME IndInv, NEW i \in Item
  PROVE  /\ Reconcile(i) \in PlanItem
         /\ Reconcile(i).item = i
         /\ Reconcile(i).sid = Gateway
         /\ Reconcile(i).parent = ParentAid(i)
         /\ Reconcile(i).create \/ Backed(i, Reconcile(i).target)
<1> USE DEF IndInv
<1>1. up[i].aid \in AnsibleId
  BY DEF TypeOK
<1>2. ParentAid(i) \in AnsibleId \cup {NoParent}
  <2>1. ParentOf[i] # NoParent => up[ParentOf[i]].aid \in AnsibleId
    BY ConstantsAssumption DEF TypeOK
  <2> QED
    BY <2>1 DEF ParentAid
<1>3. CASE Existing(i) = {}
  <2>1. Reconcile(i) = [item |-> i, lookup |-> up[i].aid, target |-> up[i].aid,
                        sid |-> Gateway, create |-> TRUE, parent |-> ParentAid(i)]
    BY <1>3 DEF Reconcile
  <2> QED
    BY <1>1, <1>2, <2>1 DEF PlanItem
<1>4. CASE Existing(i) # {}
  <2> DEFINE known == CHOOSE r \in Existing(i) : TRUE
  <2>1. known \in Existing(i)
    BY <1>4
  <2>2. /\ known \in gw /\ known.sid = Gateway /\ known.aid \in AnsibleId
        /\ Backed(i, known.aid)
    BY <2>1 DEF Existing, Backed, GatewayConsistent, TypeOK, GatewayRow
  <2>3. Reconcile(i) = [item |-> i, lookup |-> up[i].aid, target |-> known.aid,
                        sid |-> Gateway, create |-> FALSE, parent |-> ParentAid(i)]
    BY <1>4, <2>2 DEF Reconcile
  <2> HIDE DEF known
  <2> QED
    BY <1>1, <1>2, <2>2, <2>3 DEF PlanItem
<1> QED
  BY <1>3, <1>4

LEMMA FetchPageKeeps ==
  ASSUME IndInv, FetchPage
  PROVE  IndInv'
<1> USE DEF IndInv
<1>1. PICK page \in Pages(svc, TypeOrder[typ]) :
        plan' = {Reconcile(i) : i \in page \ SystemUser}
  BY DEF FetchPage
<1> DEFINE items == page \ SystemUser
<1>2. /\ items \in SUBSET Item
      /\ \A i \in items : /\ ServiceOf[i] = svc /\ TypeOf[i] = TypeOrder[typ]
                            /\ ~Migrated(i)
  BY <1>1, ConstantsAssumption DEF Pages, Unmigrated, Migrated
<1>3. plan' \subseteq PlanItem
  BY <1>1, <1>2, ReconcileRow
<1>4. IsFiniteSet(plan')
  <2> DEFINE f == [i \in items |-> Reconcile(i)]
  <2>1. IsFiniteSet(items)
    BY <1>2, ConstantsAssumption, FS_Subset
  <2>2. f \in Surjection(items, plan')
    BY <1>1 DEF Surjection
  <2> HIDE DEF f
  <2> QED
    BY <2>1, <2>2, FS_Surjection
<1>5. \A p \in plan' : \E i \in items : p = Reconcile(i) /\ p.item = i
  BY <1>1, <1>2, ReconcileRow
<1>6. TypeOK'
  BY <1>3 DEF FetchPage, TypeOK, Phases, PlanOfPage
<1>7. PlanOfPage' /\ PlanBeforeCreate' /\ PlanBeforeSend'
  <2>1. todo' = {}
    BY DEF FetchPage, PlanOfPage, TypeOK
  <2>2. \A p \in plan' : /\ ServiceOf[p.item] = svc
                         /\ TypeOf[p.item] = TypeOrder[typ]
                         /\ p.sid = Gateway
                         /\ p.parent = ParentAid(p.item)
                         /\ ~Migrated(p.item)
                         /\ p.create \/ Backed(p.item, p.target)
    BY <1>2, <1>5, ReconcileRow
  <2>3. \A p, q \in plan' : p.item = q.item => p = q
    BY <1>5
  <2>4. \A p : Backed(p.item, p.target)' = Backed(p.item, p.target)
    BY DEF FetchPage, Backed, ParentAid
  <2> QED
    BY <1>4, <2>1, <2>2, <2>3, <2>4, SameRows
    DEF FetchPage, PlanOfPage, PlanBeforeCreate, PlanBeforeSend
<1>8. EarlierTypesDone' /\ DoneMeansMigrated'
  BY SameRows DEF FetchPage, EarlierTypesDone, Running, DoneMeansMigrated
<1> QED
  BY <1>6, <1>7, <1>8, SameRows DEF FetchPage

LEMMA CreateLocalKeeps ==
  ASSUME IndInv, CreateLocal
  PROVE  IndInv'
<1> USE DEF IndInv
<1> DEFINE rows == {CreatedRow(p) : p \in {q \in plan : q.create}}
<1>1. gw' = gw \cup rows /\ UniqueRows(gw')
  BY DEF CreateLocal
<1>2. rows \subseteq GatewayRow /\ \A r \in rows : r.sid = Gateway
  BY ConstantsAssumption DEF TypeOK, PlanItem, CreatedRow, GatewayRow
<1>3. TypeOK'
  BY <1>1, <1>2 DEF CreateLocal, TypeOK, Phases, PlanOfPage
<1>4. GatewayConsistent'
  BY <1>1, <1>2 DEF GatewayConsistent
<1>5. \A i, a : Backed(i, a) => Backed(i, a)'
  BY <1>1 DEF Backed, ParentAid, CreateLocal
<1>6. \A i : Migrated(i)' = Migrated(i) /\ ParentAid(i)' = ParentAid(i)
  BY DEF CreateLocal, Migrated, ParentAid
<1>7. \A p \in plan : p.create => Backed(p.item, p.target)'
  <2> SUFFICES ASSUME NEW p \in plan, p.create
               PROVE  Backed(p.item, p.target)'
    OBVIOUS
  <2>1. CreatedRow(p) \in gw'
    BY <1>1
  <2>2. p.parent = ParentAid(p.item)'
    BY <1>6 DEF PlanOfPage
  <2> QED
    BY <2>1, <2>2 DEF Backed, CreatedRow
<1>8. PlanOfPage' /\ PlanBeforeCreate' /\ PlanBeforeSend'
  BY <1>5, <1>6, <1>7
  DEF CreateLocal, PlanOfPage, PlanBeforeCreate, PlanBeforeSend
<1>9. ManagedByGateway'
  <2>1. ManagedByGateway = \A i \in Item : Migrated(i) => Backed(i, up[i].aid)
    BY DEF ManagedByGateway, Backed
  <2> QED
    BY <1>1, <1>6, <2>1 DEF CreateLocal, Backed, ManagedByGateway
<1>10. OwnerOrGateway' /\ ParentsFirst' /\ EarlierTypesDone' /\ DoneMeansMigrated'
  BY <1>6 DEF CreateLocal, OwnerOrGateway, ParentsFirst, EarlierTypesDone,
              Running, DoneMeansMigrated
<1> QED
  BY <1>3, <1>4, <1>8, <1>9, <1>10

(* An answered or retried request: the page goes on. *)
LEMMA ChunkKeeps ==
  ASSUME IndInv, phase = "send", NEW done \in SUBSET chunk, BulkUpdate(done),
         UNCHANGED <<gw, svc, typ, phase, plan, zero>>,
         todo' \subseteq plan, chunk' \subseteq todo',
         attempt' \in 0..(MaxTransientRetries - 1), updated' \in Nat
  PROVE  IndInv'
<1> USE DEF IndInv
<1>1. done \in SUBSET plan
  BY DEF TypeOK
<1>2. TypeOK'
  BY <1>1, BulkEffect DEF TypeOK
<1>3. GatewayConsistent'
  BY DEF GatewayConsistent, UniqueRows
<1>4. \A p \in plan : p.item \in Item
  BY DEF TypeOK, PlanItem
<1>5. PlanOfPage' /\ PlanBeforeCreate' /\ PlanBeforeSend'
  BY <1>1, BulkKeeps DEF PlanOfPage, PlanBeforeCreate, PlanBeforeSend
<1>6. EarlierTypesDone' /\ DoneMeansMigrated'
  BY <1>1, BulkKeeps DEF EarlierTypesDone, Running, DoneMeansMigrated
<1> QED
  BY <1>1, <1>2, <1>3, <1>5, <1>6, BulkKeeps

(* Requests name finitely many rows. *)
LEMMA CountUpdated ==
  ASSUME IndInv, NEW done \in SUBSET chunk
  PROVE  updated + Cardinality(done) \in Nat
<1>1. done \in SUBSET plan /\ IsFiniteSet(plan) /\ updated \in Nat
  BY DEF IndInv, TypeOK, PlanOfPage
<1>2. Cardinality(done) \in Nat
  BY <1>1, FS_Subset, FS_CardinalityType
<1> QED
  BY <1>1, <1>2

LEMMA SendKeeps ==
  ASSUME IndInv,
         ChunkAnswered \/ ChunkAnsweredOddly \/ ChunkRetried \/ ChunkFails
  PROVE  IndInv'
<1> USE DEF IndInv
<1>1. CASE ChunkAnswered
  <2> PICK done \in SUBSET chunk :
        BulkUpdate(done) /\ updated' = updated + Cardinality(done)
    BY <1>1 DEF ChunkAnswered
  <2>1. updated' \in Nat
    BY CountUpdated
  <2>2. /\ phase = "send" /\ UNCHANGED <<gw, svc, typ, phase, plan, zero>>
        /\ todo' \subseteq plan /\ chunk' \subseteq todo'
        /\ attempt' \in 0..(MaxTransientRetries - 1)
    BY <1>1 DEF ChunkAnswered, TypeOK
  <2> QED
    BY <2>1, <2>2, ChunkKeeps
<1>2. CASE ChunkAnsweredOddly
  <2> PICK done \in SUBSET chunk : BulkUpdate(done)
    BY <1>2 DEF ChunkAnsweredOddly
  <2>1. /\ phase = "send" /\ UNCHANGED <<gw, svc, typ, phase, plan, zero>>
        /\ todo' \subseteq plan /\ chunk' \subseteq todo'
        /\ attempt' \in 0..(MaxTransientRetries - 1) /\ updated' \in Nat
    BY <1>2 DEF ChunkAnsweredOddly, TypeOK
  <2> QED
    BY <2>1, ChunkKeeps
<1>3. CASE ChunkRetried
  <2> PICK done \in SUBSET chunk : BulkUpdate(done)
    BY <1>3 DEF ChunkRetried
  <2>1. /\ phase = "send" /\ UNCHANGED <<gw, svc, typ, phase, plan, zero>>
        /\ todo' \subseteq plan /\ chunk' \subseteq todo'
        /\ attempt' \in 0..(MaxTransientRetries - 1) /\ updated' \in Nat
    BY <1>3 DEF ChunkRetried, TypeOK, MaxTransientRetries
  <2> QED
    BY <2>1, ChunkKeeps
<1>4. CASE ChunkFails
  <2> PICK done \in SUBSET chunk : BulkUpdate(done)
    BY <1>4 DEF ChunkFails
  <2>1. done \in SUBSET plan
    BY DEF TypeOK
  <2>2. /\ phase = "send" /\ Leave("failed")
        /\ gw' = gw /\ svc' = svc /\ typ' = typ
    BY <1>4 DEF ChunkFails
  <2>3. /\ ManagedByGateway' /\ OwnerOrGateway' /\ ParentsFirst'
        /\ up' \in [Item -> [aid : AnsibleId, sid : Service \cup {Gateway}]]
    BY <2>1, <2>2, BulkEffect, BulkKeeps
  <2> QED
    BY <2>2, <2>3, LeaveKeeps
<1> QED
  BY <1>1, <1>2, <1>3, <1>4

LEMMA NextChunkKeeps ==
  ASSUME IndInv, NextChunk
  PROVE  IndInv'
<1> USE DEF IndInv
<1>1. TypeOK'
  BY DEF NextChunk, TypeOK, MaxTransientRetries
<1>2. \A i, a : Backed(i, a)' = Backed(i, a)
  BY DEF NextChunk, Backed, ParentAid
<1>3. PlanOfPage' /\ PlanBeforeCreate' /\ PlanBeforeSend'
  BY <1>2, SameRows DEF NextChunk, PlanOfPage, PlanBeforeCreate, PlanBeforeSend
<1>4. EarlierTypesDone' /\ DoneMeansMigrated'
  BY SameRows DEF NextChunk, EarlierTypesDone, Running, DoneMeansMigrated
<1> QED
  BY <1>1, <1>3, <1>4, SameRows DEF NextChunk

LEMMA FinishPageKeeps ==
  ASSUME IndInv, FinishPage
  PROVE  IndInv'
<1> USE DEF IndInv
<1>1. CASE phase' = "failed"
  BY <1>1, SameRows, LeaveKeeps DEF FinishPage, TypeOK
<1>2. CASE phase' # "failed"
  <2>1. phase' = "fetch" /\ plan' = {}
    BY <1>2 DEF FinishPage, Leave
  <2>2. TypeOK'
    BY <1>2, <2>1
    DEF FinishPage, Leave, TypeOK, Phases, MaxZeroProgressPages,
        MaxTransientRetries
  <2>3. EarlierTypesDone' /\ DoneMeansMigrated'
    BY <2>1, SameRows
    DEF FinishPage, EarlierTypesDone, Running, DoneMeansMigrated
  <2> QED
    BY <2>1, <2>2, <2>3, SameRows, NoPage DEF FinishPage
<1> QED
  BY <1>1, <1>2

-----------------------------------------------------------------------------
(* One step per action of the loop, ... *)
LEMMA StepKeeps ==
  ASSUME IndInv, Step
  PROVE  IndInv'
<1>1. CASE FetchInvalid \/ FetchError \/ CreateFails
  <2>1. /\ Leave("failed")
        /\ gw' = gw /\ up' = up /\ svc' = svc /\ typ' = typ
    BY <1>1 DEF FetchInvalid, FetchError, CreateFails
  <2>2. up' \in [Item -> [aid : AnsibleId, sid : Service \cup {Gateway}]]
    BY <2>1 DEF IndInv, TypeOK
  <2> QED
    BY <2>1, <2>2, SameRows, LeaveKeeps
<1> QED
  BY <1>1, FetchNothingKeeps, FetchPageKeeps, CreateLocalKeeps, NextChunkKeeps,
     SendKeeps, FinishPageKeeps DEF Step

(* ... and the loop can be killed. *)
LEMMA KillKeeps ==
  ASSUME IndInv, Leave("idle"), UNCHANGED <<gw, up, svc, typ>>
  PROVE  IndInv'
<1>1. up' \in [Item -> [aid : AnsibleId, sid : Service \cup {Gateway}]]
  BY DEF IndInv, TypeOK
<1> QED
  BY <1>1, SameRows, LeaveKeeps

LEMMA StutterKeeps ==
  ASSUME IndInv, UNCHANGED vars
  PROVE  IndInv'
  BY SameRows
  DEF vars, IndInv, TypeOK, PlanOfPage, PlanBeforeCreate, PlanBeforeSend,
      EarlierTypesDone, Running, DoneMeansMigrated, Backed, ParentAid

LEMMA NextKeeps == IndInv /\ [Next]_vars => IndInv'
<1> SUFFICES ASSUME IndInv, [Next]_vars PROVE IndInv'
  OBVIOUS
<1>1. CASE \E s \in Service : StartService(s)
  BY <1>1, StartServiceKeeps
<1>2. CASE Step
  BY <1>2, StepKeeps
<1>3. CASE Crash
  BY <1>3, KillKeeps DEF Crash
<1>4. CASE UNCHANGED vars
  BY <1>4, StutterKeeps
<1> QED
  BY <1>1, <1>2, <1>3, <1>4 DEF Next

LEMMA Invariance == Spec => []IndInv
  BY InitInv, NextKeeps, PTL DEF Spec

(* Every variable of the migration keeps its type. *)
THEOREM TypeCorrect == Spec => []TypeOK
<1>1. IndInv => TypeOK
  BY DEF IndInv
<1> QED
  BY <1>1, Invariance, PTL

(***************************************************************************)
(* However many services, pages, lost replies, refusals and crashes: a row *)
(* a service has handed over is backed by the gateway's own.               *)
(***************************************************************************)
THEOREM HandedOverIsManaged == Spec => []ManagedByGateway
<1>1. IndInv => ManagedByGateway
  BY DEF IndInv
<1> QED
  BY <1>1, Invariance, PTL

(***************************************************************************)
(* Two handed-over rows share an ansible_id exactly if they are the same   *)
(* object: both are backed by gateway rows, and those are unique.          *)
(***************************************************************************)
THEOREM IdentityIsShared == Spec => []OneIdentityPerObject
<1>1. IndInv => OneIdentityPerObject
  <2> SUFFICES ASSUME IndInv, NEW i \in Item, NEW j \in Item, Migrated(i),
                      Migrated(j)
               PROVE  up[i].aid = up[j].aid <=> /\ TypeOf[i] = TypeOf[j]
                                                /\ NameOf[i] = NameOf[j]
                                                /\ ParentAid(i) = ParentAid(j)
    BY DEF OneIdentityPerObject
  <2>1. PICK r \in gw : /\ r.aid = up[i].aid /\ r.type = TypeOf[i]
                        /\ r.name = NameOf[i] /\ r.parent = ParentAid(i)
    BY DEF IndInv, ManagedByGateway
  <2>2. PICK s \in gw : /\ s.aid = up[j].aid /\ s.type = TypeOf[j]
                        /\ s.name = NameOf[j] /\ s.parent = ParentAid(j)
    BY DEF IndInv, ManagedByGateway
  <2>3. r.aid = s.aid \/ SameKey(r, s) => r = s
    BY DEF IndInv, GatewayConsistent, UniqueRows
  <2> QED
    BY <2>1, <2>2, <2>3 DEF SameKey
<1> QED
  BY <1>1, Invariance, PTL

(***************************************************************************)
(* Teams are read only when the organizations of their service have been   *)
(* handed over, so the gateway knows the organization each of them names.  *)
(***************************************************************************)
THEOREM OrganizationsComeFirst == Spec => []TeamsFindTheirOrganization
<1>1. IndInv => TeamsFindTheirOrganization
  <2> SUFFICES ASSUME IndInv, phase \in {"fetch", "create", "send"},
                      TypeOrder[typ] = "team", NEW i \in Item,
                      ServiceOf[i] = svc, TypeOf[i] = "team",
                      ParentOf[i] # NoParent
               PROVE  \E r \in gw : /\ r.type = "organization"
                                   /\ r.aid = ParentAid(i)
    BY DEF TeamsFindTheirOrganization
  <2>1. ParentOf[i] \in Item
    BY ConstantsAssumption
  <2>2. /\ TypeOf[ParentOf[i]] = "organization" /\ ServiceOf[ParentOf[i]] = svc
        /\ ParentOf[i] \notin SystemUser
    BY <2>1, ParentAssumption, SystemUserAssumption
  <2>3. typ \in 1..5 /\ typ # 1
    BY OrderOfTypes DEF IndInv, TypeOK
  <2>4. 1 \in 1..(typ - 1)
    BY <2>3
  <2>5. Migrated(ParentOf[i])
    BY <2>1, <2>2, <2>4, OrderOfTypes DEF IndInv, EarlierTypesDone, Running
  <2> QED
    BY <2>1, <2>2, <2>5 DEF IndInv, ManagedByGateway, ParentAid
<1> QED
  BY <1>1, Invariance, PTL

(***************************************************************************)
(* A service declared migrated has handed over all it has but the system   *)
(* user, for every page size of at least two.                              *)
(***************************************************************************)
THEOREM DoneIsDone == Spec => []DoneMeansMigrated
<1>1. IndInv => DoneMeansMigrated
  BY DEF IndInv
<1> QED
  BY <1>1, Invariance, PTL

-----------------------------------------------------------------------------
(***************************************************************************)
(* MigrateServiceData: the completion flag and the gate it opens.          *)
(***************************************************************************)
Of(n) == ServiceOrder[n]

(* The services before pos failed or have nothing left to migrate. *)
LoopInv ==
  /\ hpc \in {"service", "resources"} =>
       \A n \in 1..(pos - 1) : Of(n) \in failures \/ Settled(Of(n))
  /\ hpc = "resources" => pos <= Len(ServiceOrder) /\ svc = Of(pos)
  /\ hpc \in {"superusers", "mark"} => \A s \in Service : Settled(s)

(* A worker's copy of the flag, and what it let through, are no news. *)
GateInv == \A w \in Worker : (cached[w] = "true" \/ w \in served) => hasRan

HandleInv == IndInv /\ HandleTypeOK /\ LoopInv /\ GateInv /\ FlagMeansComplete

LEMMA HandleInitInv == HandleInit => HandleInv
<1> SUFFICES ASSUME HandleInit PROVE HandleInv
  OBVIOUS
<1>1. IndInv /\ TypeOK
  BY InitInv DEF HandleInit, IndInv
<1>2. Len(ServiceOrder) \in Nat
  BY ServiceOrderAssumption
<1>3. HandleTypeOK
  <2>1. pos \in 1..(Len(ServiceOrder) + 1)
    BY <1>2 DEF HandleInit
  <2>2. hasRan \in BOOLEAN
    BY DEF HandleInit
  <2> QED
    BY <1>1, <2>1, <2>2 DEF HandleInit, HandleTypeOK
<1>4. GateInv
  BY DEF HandleInit, GateInv
<1> QED
  BY <1>1, <1>3, <1>4 DEF HandleInit, HandleInv, LoopInv, FlagMeansComplete

(* What is settled stays settled. *)
LEMMA HandoverIsFinal ==
  ASSUME IndInv, [Next]_vars
  PROVE  \A i \in Item : Migrated(i) => Migrated(i)'
<1>1. CASE UNCHANGED up
  BY <1>1 DEF Migrated
<1>2. CASE \E done \in SUBSET chunk : phase = "send" /\ BulkUpdate(done)
  <2> PICK done \in SUBSET chunk : phase = "send" /\ BulkUpdate(done)
    BY <1>2
  <2>1. done \in SUBSET plan
    BY DEF IndInv, TypeOK
  <2> QED
    BY <2>1, BulkEffect DEF Migrated
<1> QED
  BY <1>1, <1>2
  DEF Next, Step, StartService, FetchNothing, FetchPage, FetchInvalid,
      FetchError, CreateLocal, CreateFails, NextChunk, ChunkAnswered,
      ChunkAnsweredOddly, ChunkRetried, ChunkFails, FinishPage, Crash, vars

LEMMA MigrationUnderneath ==
  ASSUME HandleInv, [HandleNext]_allVars
  PROVE  /\ IndInv'
         /\ \A i \in Item : Migrated(i) => Migrated(i)'
         /\ \A s : Settled(s) => Settled(s)'
<1>1. IndInv
  BY DEF HandleInv
<1>2. CASE CommandKilled
  BY <1>1, <1>2, KillKeeps DEF CommandKilled, Migrated, Settled
<1>3. CASE [Next]_vars /\ rolesDone \subseteq rolesDone'
  BY <1>1, <1>3, NextKeeps, HandoverIsFinal DEF Settled
<1>4. CASE BeginService
  <2>1. pos \in 1..Len(ServiceOrder)
    BY <1>4, ServiceOrderAssumption DEF BeginService, HandleInv, HandleTypeOK
  <2>2. ServiceOrder[pos] \in Service
    BY <2>1, ServiceOrderAssumption
  <2> QED
    BY <1>3, <1>4, <2>2 DEF BeginService, Next
<1> QED
  BY <1>2, <1>3, <1>4
  DEF HandleNext, HandleStep, Invoke, PrepareFails, Prepare, ServiceRejected,
      ResourceStep, ResourcesFailed, RolesMigrated, RolesFailed, ReportSummary,
      SuperusersChecked, MarkCompleted, ServiceTokenAuth, CacheExpires, Next,
      handleVars, allVars

LEMMA HandleKeeps == HandleInv /\ [HandleNext]_allVars => HandleInv'
<1> SUFFICES ASSUME HandleInv, [HandleNext]_allVars PROVE HandleInv'
  OBVIOUS
<1> USE DEF HandleInv
<1>1. TypeOK' /\ IndInv'
  BY MigrationUnderneath DEF IndInv
<1>2. \A s : Settled(s) => Settled(s)'
  BY MigrationUnderneath
<1>3. /\ Len(ServiceOrder) \in Nat
      /\ \A n \in 1..Len(ServiceOrder) : Of(n) \in Service
      /\ \A s \in Service : \E n \in 1..Len(ServiceOrder) : Of(n) = s
  BY ServiceOrderAssumption DEF Of
<1>4. CASE \E rerun \in BOOLEAN : Invoke(rerun)
  BY <1>1, <1>2, <1>4
  DEF Invoke, gateVars, HandleTypeOK, LoopInv, GateInv, FlagMeansComplete
<1>5. CASE PrepareFails
  BY <1>1, <1>2, <1>5
  DEF PrepareFails, gateVars, HandleTypeOK, LoopInv, GateInv, FlagMeansComplete
<1>6. CASE Prepare
  BY <1>1, <1>2, <1>3, <1>6
  DEF Prepare, gateVars, HandleTypeOK, LoopInv, GateInv, FlagMeansComplete
<1>7. CASE BeginService
  BY <1>1, <1>2, <1>3, <1>7
  DEF BeginService, StartService, gateVars, HandleTypeOK, LoopInv, GateInv,
      FlagMeansComplete, Of
<1>8. CASE ServiceRejected \/ ResourcesFailed \/ RolesFailed
  <2>1. /\ pos \in 1..Len(ServiceOrder) /\ pos' = pos + 1
        /\ hpc \in {"service", "resources"} /\ hpc' = "service"
        /\ failures' = failures \cup {Of(pos)}
        /\ UNCHANGED <<gateVars, rolesDone, hasRan>>
    BY <1>3, <1>8 DEF ServiceRejected, ResourcesFailed, RolesFailed, Of,
                      HandleTypeOK, LoopInv
  <2>2. \A n \in 1..(pos' - 1) : n = pos \/ n \in 1..(pos - 1)
    BY <2>1
  <2>3. LoopInv'
    BY <1>2, <2>1, <2>2 DEF LoopInv
  <2>4. pos' \in 1..(Len(ServiceOrder) + 1) /\ failures' \subseteq Service
    BY <1>3, <2>1 DEF HandleTypeOK
  <2> QED
    BY <1>1, <1>2, <2>1, <2>3, <2>4
    DEF gateVars, HandleTypeOK, GateInv, FlagMeansComplete
<1>9. CASE ResourceStep
  <2>1. svc' = svc
    BY <1>9 DEF ResourceStep, Step, FetchNothing, FetchPage, FetchInvalid,
                FetchError, CreateLocal, CreateFails, NextChunk, ChunkAnswered,
                ChunkAnsweredOddly, ChunkRetried, ChunkFails, FinishPage
  <2> QED
    BY <1>1, <1>2, <1>9, <2>1
    DEF ResourceStep, handleVars, gateVars, HandleTypeOK, LoopInv, GateInv,
        FlagMeansComplete
<1>10. CASE RolesMigrated
  <2>1. /\ pos \in 1..Len(ServiceOrder) /\ pos' = pos + 1
        /\ hpc = "resources" /\ hpc' = "service" /\ svc = Of(pos)
        /\ rolesDone' = rolesDone \cup {Of(pos)}
        /\ UNCHANGED <<gateVars, failures, hasRan>>
    BY <1>3, <1>10 DEF RolesMigrated, Of, HandleTypeOK, LoopInv
  <2>2. \A n \in 1..(pos' - 1) : n = pos \/ n \in 1..(pos - 1)
    BY <2>1
  <2>3. \A s : s = Of(pos) => Settled(s)'
    BY <1>10, <2>1 DEF RolesMigrated, Settled, IndInv, DoneMeansMigrated,
                       Migrated, vars
  <2>4. LoopInv'
    BY <1>2, <2>1, <2>2, <2>3 DEF LoopInv
  <2>5. pos' \in 1..(Len(ServiceOrder) + 1) /\ rolesDone' \subseteq Service
    BY <1>3, <2>1 DEF HandleTypeOK
  <2> QED
    BY <1>1, <1>2, <2>1, <2>4, <2>5
    DEF gateVars, HandleTypeOK, GateInv, FlagMeansComplete
<1>11. CASE ReportSummary
  <2>1. \A n \in 1..Len(ServiceOrder) : Of(n) \in failures \/ Settled(Of(n))
    BY <1>3, <1>11 DEF ReportSummary, HandleTypeOK, LoopInv
  <2>2. failures = {} => \A s \in Service : Settled(s)
    BY <1>3, <2>1
  <2> QED
    BY <1>1, <1>2, <1>11, <2>2
    DEF ReportSummary, gateVars, HandleTypeOK, LoopInv, GateInv,
        FlagMeansComplete
<1>12. CASE SuperusersChecked
  BY <1>1, <1>2, <1>12
  DEF SuperusersChecked, gateVars, HandleTypeOK, LoopInv, GateInv,
      FlagMeansComplete
<1>13. CASE MarkCompleted
  BY <1>1, <1>2, <1>13
  DEF MarkCompleted, gateVars, HandleTypeOK, LoopInv, GateInv,
      FlagMeansComplete
<1>14. CASE CommandKilled
  BY <1>1, <1>2, <1>14
  DEF CommandKilled, gateVars, HandleTypeOK, LoopInv, GateInv,
      FlagMeansComplete
<1>15. CASE \E w \in Worker : ServiceTokenAuth(w) \/ CacheExpires(w)
  <2>1. UNCHANGED <<vars, handleVars>>
    BY <1>15 DEF ServiceTokenAuth, CacheExpires
  <2>2. GateInv' /\ served' \subseteq Worker
        /\ cached' \in [Worker -> {"unset", "true", "false"}]
    BY <1>15 DEF ServiceTokenAuth, CacheExpires, HasMigrationCompleted, GateInv,
                 HandleTypeOK, handleVars
  <2> QED
    BY <1>1, <1>2, <2>1, <2>2
    DEF HandleTypeOK, LoopInv, FlagMeansComplete, handleVars, vars
<1>16. CASE UNCHANGED allVars
  BY <1>1, <1>2, <1>16
  DEF allVars, vars, handleVars, gateVars, HandleTypeOK, LoopInv, GateInv,
      FlagMeansComplete
<1> QED
  BY <1>4, <1>5, <1>6, <1>7, <1>8, <1>9, <1>10, <1>11, <1>12, <1>13, <1>14,
     <1>15, <1>16 DEF HandleNext, HandleStep

LEMMA HandleInvariance == HandleSpec => []HandleInv
  BY HandleInitInv, HandleKeeps, PTL DEF HandleSpec

(***************************************************************************)
(* The completion flag tells the truth: when it is set, every service has  *)
(* handed over its resources and its role assignments were migrated.       *)
(***************************************************************************)
THEOREM FlagIsTrue == HandleSpec => []FlagMeansComplete
<1>1. HandleInv => FlagMeansComplete
  BY DEF HandleInv
<1> QED
  BY <1>1, HandleInvariance, PTL

(***************************************************************************)
(* No worker lets a service token through before that, although each       *)
(* decides from a copy of the flag that may be five seconds old.           *)
(***************************************************************************)
THEOREM GateIsClosed == HandleSpec => []NoServiceBeforeCompletion
<1>1. HandleInv => NoServiceBeforeCompletion
  BY DEF HandleInv, HandleTypeOK, GateInv, FlagMeansComplete,
         NoServiceBeforeCompletion
<1> QED
  BY <1>1, HandleInvariance, PTL

(***************************************************************************)
(* The command embeds the migration faithfully: what services have handed  *)
(* over is managed by the gateway in every run of the whole command too.   *)
(***************************************************************************)
THEOREM CommandKeepsHandover == HandleSpec => []ManagedByGateway
<1>1. HandleInv => ManagedByGateway
  BY DEF HandleInv, IndInv
<1> QED
  BY <1>1, HandleInvariance, PTL

(***************************************************************************)
(* MigrationUpgrade: a pass is earned, and nothing is left behind.         *)
(***************************************************************************)
(* Where a run is: before a stage or within it, or at its end.             *)
Active == upc \in InStage \cup {"sha"}
Good == outcome \in {"running", "passing", "passed"}

FilesOf(n) == {m \in Migrations : checkout[n].files[m] # Absent}

(* The stages, their results and their inventories go together.            *)
StagesInStep ==
  /\ outcome = "running" <=> Active \/ upc = "start"
  /\ outcome \in {"passing", "failing"} <=> upc \in {"cleanup", "final"}
  /\ Active => /\ after # Stages
               /\ Len(results) = IF upc = "sha" THEN stage - 1 ELSE stage
               /\ \A n \in 1..(stage - 1) : results[n] = "passed"
               /\ Len(inventories) =
                    IF upc \in {"sha", "install", "migrate", "inventory"} THEN stage - 1 ELSE stage
  /\ upc = "start" => stage = 1 /\ results = <<>> /\ inventories = <<>>
  /\ outcome \in {"passing", "passed"} =>
       /\ after # Stages /\ Len(inventories) = Stages
       /\ results = [n \in 1..Stages |-> "passed"]

(* The inventories tell what their stages applied.                         *)
InventoriesTrue ==
  /\ inventories \in Seq([stage : 1..Stages, available : [Migrations -> Fingerprints \cup {Absent}],
                          applied : SUBSET Migrations,
                          deps : SUBSET UNION {UNION {c[n].dists : n \in 1..Stages} : c \in Checkouts}])
  /\ \A n \in DOMAIN inventories :
       /\ inventories[n].available = checkout[n].files
       /\ n > 1 => inventories[n].applied = inventories[n - 1].applied \cup FilesOf(n)
  /\ upc \in {"sha", "install", "migrate"} /\ stage > 1 =>
       StageDb.applied = inventories[stage - 1].applied
  /\ upc = "inventory" /\ stage > 1 =>
       StageDb.applied = inventories[stage - 1].applied \cup FilesOf(stage)
  /\ upc \in {"seed", "capture", "createdb", "restore", "compare", "unlink", "verify", "summary"} =>
       StageDb.applied = inventories[stage].applied

(* f is the first inventory that has m.                                    *)
FirstAt(m, f) ==
  /\ f \in DOMAIN inventories /\ m \in inventories[f].applied
  /\ \A k \in 1..(f - 1) : m \notin inventories[k].applied

FirstKnown ==
  \A i \in DOMAIN inventories : \A m \in inventories[i].applied : \E f \in 1..i : FirstAt(m, f)

(* Every migration was compared with its first one, in every stage.        *)
Compared ==
  Good => \A m \in policy.enforced : \A j \in DOMAIN inventories : \A f \in 1..j :
            FirstAt(m, f) =>
              LET is == checkout[j].files[m]
                  was == checkout[f].files[m]
              IN /\ is = Absent => m \in policy.missing
                 /\ is # Absent /\ was # Absent /\ is # was => m \in policy.changed

(* The sources of every stage were looked at.                              *)
PinnedAt(n) == n \in policy.immutable => \A d \in checkout[n].dists : d.vcs # Absent => ~Unsafe(d)
Pinned == Good => \A n \in DOMAIN inventories : PinnedAt(n)

(* The round trip happens in its stage, and the copy is used from then on. *)
RoundTripOnce ==
  /\ Active => (env = Snapshot <=> after # 0 /\ (stage > after \/ (stage = after /\ upc = "summary")))
  /\ upc = "start" => env = Original /\ expected = Absent
  /\ Active /\ env = Original => expected = Absent
  /\ upc \in {"seed", "capture", "createdb", "restore", "compare", "unlink", "unlink-failed"} =>
       stage = after /\ env = Original
  /\ upc = "verify" => env = Snapshot

SourceTrue ==
  /\ upc = "capture" => dbs[Original].fixture = "seeded"
  /\ upc \in {"createdb", "restore", "compare", "unlink"} =>
       source = State(dbs[Original]) /\ StateValid(source) /\ source.fixture = "seeded"
  /\ upc \in {"restore", "compare", "unlink"} => dbs[Snapshot] \in Contents
  /\ upc = "unlink" => State(dbs[Snapshot]) = source

(* The copy is what the original was, and the original is left alone.      *)
CopyTrue ==
  (Active /\ env = Snapshot) \/ (upc = "cleanup" /\ outcome = "passing" /\ after # 0) =>
    /\ State(dbs[Original]) = source /\ source.fixture = "seeded" /\ expected = "seeded"
    /\ Absent # "seeded" /\ dbs[Snapshot] \in Contents
    /\ source.applied = inventories[after].applied
    /\ \A n \in after..Len(inventories) : source.applied \subseteq inventories[n].applied
    /\ upc \in {"summary", "cleanup"} => Identity(dbs[Snapshot]) = expected

(* What can be left behind is known, or was warned about.                  *)
LeftKnown ==
  /\ dbs[Snapshot] \notin {Absent, Late} => named \/ warning \/ outcome = "died"
  /\ (Active /\ env = Snapshot)
       \/ upc \in {"capture", "createdb", "restore", "compare", "unlink", "unlink-failed"} => named
  /\ dump # Absent =>
       \/ warning \/ outcome = "died"
       \/ upc \in {"createdb", "restore", "compare", "unlink", "unlink-failed"}
  /\ upc \in {"start", "sha", "install", "migrate", "inventory", "seed"} => dump = Absent
  /\ upc \in {"start", "final", "end"} /\ outcome # "died" => ~named
  /\ outcome = "running" => ~warning

(* The last summary is behind the results, never ahead of them.            *)
SummaryBehind ==
  summary # Absent =>
    /\ Active => DOMAIN summary.results \subseteq 1..(stage - 1)
    /\ DOMAIN summary.results \subseteq DOMAIN results
    /\ \A n \in DOMAIN summary.results : summary.results[n] = "passed" => results[n] = "passed"

FinalSummary ==
  outcome = "passed" => summary = Summary(results)

UpgradeInv ==
  /\ UpgradeTypeOK /\ StagesInStep /\ InventoriesTrue /\ FirstKnown /\ Compared /\ Pinned
  /\ RoundTripOnce /\ SourceTrue /\ CopyTrue /\ LeftKnown /\ SummaryBehind /\ FinalSummary

LEMMA UpgradeInitInv == UpgradeInit => UpgradeInv
<1> SUFFICES ASSUME UpgradeInit PROVE UpgradeInv
  OBVIOUS
<1>1. PICK old \in Histories :
        dbs = [d \in {Original, Snapshot} |->
                 IF d = Original THEN [applied |-> old, fixture |-> Absent] ELSE Absent]
  BY DEF UpgradeInit
<1>2. /\ dbs[Original] = [applied |-> old, fixture |-> Absent] /\ dbs[Snapshot] = Absent
      /\ dbs \in [{Original, Snapshot} -> {[applied |-> old, fixture |-> Absent], Absent}]
  BY <1>1 DEF Original, Snapshot
<1>3. [applied |-> old, fixture |-> Absent] \in Contents
  BY UpgradeAssumption DEF Contents
<1>4. dbs \in [{Original, Snapshot} -> Contents \cup {Absent, Late}]
  BY <1>2, <1>3
<1>5. /\ stage = 1 /\ upc = "start" /\ results = <<>> /\ inventories = <<>>
      /\ env = Original /\ named = FALSE /\ dump = Absent /\ warning = FALSE /\ summary = Absent
      /\ outcome = "running" /\ expected = Absent /\ checkout \in Checkouts /\ policy \in Policies /\ after \in 0..Stages
  BY DEF UpgradeInit
<1>6. UpgradeTypeOK
  <2>1. stage \in 1..Stages
    BY <1>5, UpgradeAssumption
  <2>2. named \in BOOLEAN /\ warning \in BOOLEAN
    BY <1>5
  <2> QED
    BY <1>2, <1>3, <1>4, <1>5, <2>1, <2>2 DEF UpgradeTypeOK
<1>7. StagesInStep
  BY <1>5 DEF StagesInStep, Active, InStage
<1>8. InventoriesTrue /\ FirstKnown /\ Compared /\ Pinned
  BY <1>5 DEF InventoriesTrue, FirstKnown, Compared, Pinned
<1>9. RoundTripOnce /\ SourceTrue /\ CopyTrue
  BY <1>5 DEF RoundTripOnce, SourceTrue, CopyTrue, Active, InStage
<1>10. LeftKnown /\ SummaryBehind /\ FinalSummary
  BY <1>2, <1>5 DEF LeftKnown, SummaryBehind, FinalSummary, Active, InStage
<1> QED
  BY <1>6, <1>7, <1>8, <1>9, <1>10 DEF UpgradeInv

-----------------------------------------------------------------------------
(* What the steps do to the databases.                                     *)

LEMMA StageDbPresent == UpgradeTypeOK /\ CopyTrue /\ Active => StageDb \in Contents
BY DEF UpgradeTypeOK, CopyTrue, StageDb

LEMMA ContentsFields ==
  ASSUME NEW c \in Contents
  PROVE  /\ c.applied \subseteq Migrations /\ c.fixture \in {Absent, "seeded", "altered"}
         /\ [c EXCEPT !.fixture = "seeded"] \in Contents
         /\ [c EXCEPT !.fixture = "seeded"].applied = c.applied
         /\ [c EXCEPT !.fixture = "seeded"].fixture = "seeded"
BY DEF Contents

LEMMA MigratedEffect ==
  ASSUME UpgradeInv, Active, NEW done \in SUBSET Migrations, NEW c \in MigratedTo(done)
  PROVE  c \in Contents /\ c.applied = StageDb.applied \cup done
<1>1. StageDb \in Contents
  BY StageDbPresent DEF UpgradeInv
<1>2. StageDb.applied \subseteq Migrations /\ StageDb.fixture \in {Absent, "seeded", "altered"}
  BY <1>1, ContentsFields
<1>3. PICK f \in {Absent, "seeded", "altered"} : c = [applied |-> StageDb.applied \cup done, fixture |-> f]
  BY <1>2 DEF MigratedTo
<1> QED
  BY <1>2, <1>3 DEF Contents

LEMMA MigrateEffect ==
  ASSUME UpgradeInv, Migrate
  PROVE  /\ \E c \in Contents :
              /\ dbs' = [dbs EXCEPT ![env] = c]
              /\ upc' = "inventory" => c.applied = StageDb.applied \cup FilesOf(stage)
         /\ \/ upc' = "inventory" /\ UNCHANGED <<results, outcome>>
            \/ FailStage
<1>1. Active
  BY DEF Migrate, Active, InStage
<1>2. Files = FilesOf(stage) /\ Files \subseteq Migrations
  BY DEF Files, FilesOf
<1>3. CASE (\E c \in MigratedTo(Files) : dbs' = [dbs EXCEPT ![env] = c]) /\ Continue("inventory")
  BY <1>1, <1>2, <1>3, MigratedEffect DEF Continue
<1>4. CASE (\E done \in SUBSET Files : \E c \in MigratedTo(done) : dbs' = [dbs EXCEPT ![env] = c]) /\ FailStage
  <2>1. PICK done \in SUBSET Files : \E c \in MigratedTo(done) : dbs' = [dbs EXCEPT ![env] = c]
    BY <1>4
  <2>2. done \in SUBSET Migrations
    BY <1>2
  <2>3. upc' = "cleanup"
    BY <1>4 DEF FailStage
  <2>4. \A c \in MigratedTo(done) : c \in Contents
    BY <1>1, <2>2, MigratedEffect
  <2> QED
    BY <1>4, <2>1, <2>3, <2>4
<1> QED
  BY <1>3, <1>4 DEF Migrate

LEMMA SeedEffect ==
  ASSUME UpgradeInv, Seed
  PROVE  /\ dbs[Original] \in Contents /\ env = Original
         /\ Seeded = [dbs EXCEPT ![Original] = [dbs[Original] EXCEPT !.fixture = "seeded"]]
         /\ dbs' \in {dbs, Seeded}
         /\ upc' \in {"capture", "unlink-failed", "cleanup"}
         /\ upc' = "capture" => dbs' = Seeded
         /\ upc' # "cleanup" => named' /\ UNCHANGED <<results, outcome>>
         /\ upc' = "cleanup" => FailStage /\ dbs' = dbs /\ named' = named
<1>1. dbs[Original] \in Contents /\ env = Original
  BY DEF UpgradeInv, UpgradeTypeOK, Seed, RoundTripOnce
<1> QED
  BY <1>1 DEF Seed, Seeded, Continue, RoundTripFails, FailStage

(* A result replaced.                                                      *)
LEMMA ResultReplaced ==
  ASSUME NEW S, NEW s \in Seq(S), NEW n, NEW v \in S
  PROVE  /\ [s EXCEPT ![n] = v] \in Seq(S) /\ Len([s EXCEPT ![n] = v]) = Len(s)
         /\ DOMAIN [s EXCEPT ![n] = v] = DOMAIN s
         /\ n \in DOMAIN s => [s EXCEPT ![n] = v][n] = v
         /\ \A k \in DOMAIN s \ {n} : [s EXCEPT ![n] = v][k] = s[k]
<1> DEFINE t == [s EXCEPT ![n] = v]
<1>1. Len(s) \in Nat /\ s \in [1..Len(s) -> S] /\ DOMAIN s = 1..Len(s)
  OBVIOUS
<1>2. /\ t \in [1..Len(s) -> S] /\ DOMAIN t = DOMAIN s
      /\ n \in DOMAIN s => t[n] = v
      /\ \A k \in DOMAIN s \ {n} : t[k] = s[k]
  BY <1>1
<1> HIDE DEF t
<1>3. t \in Seq(S) /\ Len(t) = Len(s)
  BY <1>1, <1>2
<1> QED
  BY <1>2, <1>3 DEF t

LEMMA UpgradeTypeStep == UpgradeInv /\ [UpgradeNext]_upgradeVars => UpgradeTypeOK'
<1> SUFFICES ASSUME UpgradeInv, [UpgradeNext]_upgradeVars PROVE UpgradeTypeOK'
  OBVIOUS
<1>1. UpgradeTypeOK
  BY DEF UpgradeInv
<1>2. Absent \in Contents \cup {Absent} /\ [applied |-> {}, fixture |-> Absent] \in Contents
  BY DEF Contents
<1>3. CASE StartRun
  BY <1>1, <1>3 DEF StartRun, UpgradeTypeOK, input, files, InStage
<1>4. CASE BeginStage
  <2>1. results' \in Seq({"pending", "failed", "passed"})
    BY <1>1, <1>4 DEF BeginStage, UpgradeTypeOK
  <2> QED
    BY <1>1, <1>4, <2>1 DEF BeginStage, UpgradeTypeOK, input, files, InStage
<1>5. FailStage => /\ results' \in Seq({"pending", "failed", "passed"})
                   /\ upc' = "cleanup" /\ outcome' = "failing"
  <2>1. [results EXCEPT ![stage] = "failed"] \in Seq({"pending", "failed", "passed"})
    BY <1>1, ResultReplaced DEF UpgradeTypeOK
  <2> QED
    BY <2>1 DEF FailStage
<1>6. CASE Install
  BY <1>1, <1>5, <1>6 DEF Install, Continue, UpgradeTypeOK, input, files, InStage
<1>7. CASE Migrate
  <2>1. PICK c \in Contents : dbs' = [dbs EXCEPT ![env] = c]
    BY <1>7, MigrateEffect
  <2>2. dbs' \in [{Original, Snapshot} -> Contents \cup {Absent, Late}] /\ dbs'[Original] \in Contents
    BY <1>1, <2>1 DEF UpgradeTypeOK
  <2>3. \/ upc' = "inventory" /\ UNCHANGED <<results, outcome>>
        \/ FailStage
    BY <1>7, MigrateEffect
  <2>4. UNCHANGED <<checkout, policy, after, stage, env, named, warning, dump>>
    BY <1>7 DEF Migrate, input, files
  <2> QED
    BY <1>1, <1>5, <2>2, <2>3, <2>4 DEF UpgradeTypeOK, InStage
<1>8. CASE CheckInventory
  <2>1. FailStage \/ Continue(NextInStage)
    BY <1>8, Zenon DEF CheckInventory
  <2>2. UNCHANGED <<checkout, policy, after, stage, dbs, env, named, warning, dump>>
    BY <1>8 DEF CheckInventory, input, files
  <2> QED
    BY <1>1, <1>5, <2>1, <2>2 DEF Continue, NextInStage, UpgradeTypeOK, InStage
<1>9. CASE Seed
  <2>1. dbs' \in [{Original, Snapshot} -> Contents \cup {Absent, Late}] /\ dbs'[Original] \in Contents
    BY <1>1, <1>9, SeedEffect, ContentsFields DEF UpgradeTypeOK
  <2>2. UNCHANGED <<checkout, policy, after, stage, env, warning, dump>>
    BY <1>9 DEF Seed, input, files
  <2>3. named' \in BOOLEAN
    BY <1>1, <1>9 DEF Seed, UpgradeTypeOK
  <2>4. /\ upc' \in {"capture", "unlink-failed", "cleanup"}
        /\ upc' # "cleanup" => UNCHANGED <<results, outcome>>
        /\ upc' = "cleanup" => FailStage
    BY <1>9, SeedEffect
  <2> QED
    BY <1>1, <1>5, <2>1, <2>2, <2>3, <2>4 DEF UpgradeTypeOK, InStage
<1>10. CASE Dump
  <2>1. StageDb \in Contents
    BY <1>10, StageDbPresent DEF UpgradeInv, Dump, Active, InStage
  <2>2. dump' \in Contents \cup {Absent}
    BY <1>10, <2>1 DEF Dump
  <2> QED
    BY <1>1, <1>10, <2>2 DEF Dump, Continue, RoundTripFails, UpgradeTypeOK, input, InStage
<1>11. CASE CreateDb
  <2>1. dbs' \in [{Original, Snapshot} -> Contents \cup {Absent, Late}] /\ dbs'[Original] \in Contents
    BY <1>1, <1>2, <1>11 DEF CreateDb, UpgradeTypeOK, Original, Snapshot
  <2> QED
    BY <1>1, <1>11, <2>1 DEF CreateDb, Continue, RoundTripFails, UpgradeTypeOK, input, files, InStage
<1>12. CASE Restore
  <2>1. PICK c \in Contents : dbs' = [dbs EXCEPT ![Snapshot] = c]
    BY <1>12 DEF Restore
  <2>2. dbs' \in [{Original, Snapshot} -> Contents \cup {Absent, Late}] /\ dbs'[Original] \in Contents
    BY <1>1, <2>1 DEF UpgradeTypeOK, Original, Snapshot
  <2> QED
    BY <1>1, <1>12, <2>2 DEF Restore, Continue, RoundTripFails, UpgradeTypeOK, input, files, InStage
<1>13. CASE Compare
  BY <1>1, <1>13 DEF Compare, Continue, RoundTripFails, UpgradeTypeOK, input, files, InStage
<1>14. CASE FinishRoundTrip
  <2>1. warning' \in BOOLEAN
    BY <1>1, <1>14 DEF FinishRoundTrip, UpgradeTypeOK
  <2>2. dump' \in Contents \cup {Absent} /\ env' \in {Original, Snapshot}
    BY <1>1, <1>14 DEF FinishRoundTrip, UpgradeTypeOK
  <2>3. FailStage \/ Continue("summary")
    BY <1>14 DEF FinishRoundTrip
  <2> QED
    BY <1>1, <1>5, <1>14, <2>1, <2>2, <2>3 DEF FinishRoundTrip, Continue, UpgradeTypeOK, input, InStage
<1>15. CASE VerifyFixture
  BY <1>1, <1>5, <1>15 DEF VerifyFixture, Continue, UpgradeTypeOK, input, files, InStage
<1>16. CASE PassStage
  <2>1. [results EXCEPT ![stage] = "passed"] \in Seq({"pending", "failed", "passed"})
    BY <1>1, ResultReplaced DEF UpgradeTypeOK
  <2>2. \/ /\ results' = [results EXCEPT ![stage] = "passed"]
           /\ \/ upc' = "cleanup" /\ outcome' = "passing" /\ stage' = stage
              \/ stage # Stages /\ upc' = "sha" /\ stage' = stage + 1 /\ outcome' = outcome
        \/ FailStage /\ stage' = stage
    BY <1>16 DEF PassStage
  <2>3. stage' \in 1..Stages
    BY <1>1, <2>2, UpgradeAssumption DEF UpgradeTypeOK
  <2>4. UNCHANGED <<checkout, policy, after, dbs, env, named, warning, dump>>
    BY <1>16 DEF PassStage, input
  <2> QED
    BY <1>1, <1>5, <2>1, <2>2, <2>3, <2>4 DEF UpgradeTypeOK
<1>17. CASE Cleanup
  <2>1. dbs' \in [{Original, Snapshot} -> Contents \cup {Absent, Late}] /\ dbs'[Original] \in Contents
    BY <1>1, <1>2, <1>17 DEF Cleanup, UpgradeTypeOK, Original, Snapshot
  <2>2. warning' \in BOOLEAN /\ named' \in BOOLEAN
    BY <1>1, <1>17 DEF Cleanup, UpgradeTypeOK
  <2> QED
    BY <1>1, <1>17, <2>1, <2>2 DEF Cleanup, UpgradeTypeOK, input, files
<1>18. CASE FinishRun
  BY <1>1, <1>18 DEF FinishRun, UpgradeTypeOK, input
<1>19. CASE RunnerDies
  BY <1>1, <1>19 DEF RunnerDies, UpgradeTypeOK, input, files
<1>20. CASE UNCHANGED upgradeVars
  BY <1>1, <1>20 DEF upgradeVars, UpgradeTypeOK, input
<1> QED
  BY <1>3, <1>4, <1>6, <1>7, <1>8, <1>9, <1>10, <1>11, <1>12, <1>13, <1>14, <1>15, <1>16, <1>17, <1>18,
     <1>19, <1>20 DEF UpgradeNext

-----------------------------------------------------------------------------
(* The stages.                                                             *)

InventorySet ==
  [stage : 1..Stages, available : [Migrations -> Fingerprints \cup {Absent}], applied : SUBSET Migrations,
   deps : SUBSET UNION {UNION {c[n].dists : n \in 1..Stages} : c \in Checkouts}]

LEMMA InventoryFields ==
  ASSUME UpgradeInv, upc = "inventory"
  PROVE  /\ Inventory \in InventorySet /\ Inventory.stage = stage
         /\ Inventory.available = checkout[stage].files
         /\ Inventory.applied = StageDb.applied
<1>1. StageDb \in Contents
  BY StageDbPresent DEF UpgradeInv, Active, InStage
<1>2. StageDb.applied \subseteq Migrations
  BY <1>1, ContentsFields
<1>3. stage \in 1..Stages /\ checkout \in Checkouts
  BY DEF UpgradeInv, UpgradeTypeOK
<1>4. checkout[stage].files \in [Migrations -> Fingerprints \cup {Absent}]
  BY <1>3, UpgradeAssumption
<1>5. VcsDependencies \subseteq UNION {UNION {c[n].dists : n \in 1..Stages} : c \in Checkouts}
  BY <1>3 DEF VcsDependencies
<1> QED
  BY <1>2, <1>3, <1>4, <1>5 DEF Inventory, InventorySet

LEMMA CheckEffect ==
  ASSUME UpgradeInv, CheckInventory
  PROVE  \/ FailStage /\ inventories' = inventories
         \/ /\ inventories' = Append(inventories, Inventory)
            /\ \/ FailStage
               \/ /\ Continue(NextInStage) /\ PolicyViolations(inventories') = {}
                  /\ ProvenanceViolations(Inventory) = {}
<1>1. CASE FailStage /\ UNCHANGED inventories
  BY <1>1
<1>2. CASE \E inv \in {Inventory, Absent} :
             IF InventoryValid(inv)
               THEN /\ inventories' = Append(inventories, inv)
                    /\ IF ProvenanceViolations(inv) = {} /\ PolicyViolations(inventories') = {}
                         THEN Continue(NextInStage) ELSE FailStage
               ELSE FailStage /\ UNCHANGED inventories
  <2>1. PICK inv \in {Inventory, Absent} :
             IF InventoryValid(inv)
               THEN /\ inventories' = Append(inventories, inv)
                    /\ IF ProvenanceViolations(inv) = {} /\ PolicyViolations(inventories') = {}
                         THEN Continue(NextInStage) ELSE FailStage
               ELSE FailStage /\ UNCHANGED inventories
    BY <1>2
  <2>2. InventoryValid(inv) => inv = Inventory
    BY DEF InventoryValid
  <2> QED
    BY <2>1, <2>2
<1> QED
  BY <1>1, <1>2 DEF CheckInventory

LEMMA InventoriesSeq ==
  UpgradeInv => /\ inventories \in Seq(InventorySet) /\ Len(inventories) \in Nat
                /\ DOMAIN inventories = 1..Len(inventories)
<1> SUFFICES ASSUME UpgradeInv
             PROVE  /\ inventories \in Seq(InventorySet) /\ Len(inventories) \in Nat
                    /\ DOMAIN inventories = 1..Len(inventories)
  OBVIOUS
<1>1. inventories \in Seq(InventorySet)
  BY DEF UpgradeInv, InventoriesTrue, InventorySet
<1> QED
  BY <1>1

(* One more inventory.                                                     *)
LEMMA Appended ==
  ASSUME UpgradeInv, upc = "inventory"
  PROVE  LET new == Append(inventories, Inventory) IN
         /\ new \in Seq(InventorySet) /\ Len(inventories) = stage - 1 /\ Len(new) = stage
         /\ DOMAIN inventories = 1..(stage - 1) /\ DOMAIN new = 1..stage
         /\ \A n \in 1..(stage - 1) : new[n] = inventories[n]
         /\ new[stage] = Inventory
<1>1. inventories \in Seq(InventorySet)
  BY InventoriesSeq
<1>2. Inventory \in InventorySet
  BY InventoryFields
<1>3. Len(inventories) = stage - 1 /\ stage \in 1..Stages
  BY DEF UpgradeInv, StagesInStep, UpgradeTypeOK, Active, InStage
<1>4. stage \in Nat /\ stage >= 1
  BY <1>3, UpgradeAssumption
<1> HIDE DEF Inventory, InventorySet
<1> QED
  BY <1>1, <1>2, <1>3, <1>4

LEMMA StagesStep == UpgradeInv /\ [UpgradeNext]_upgradeVars => StagesInStep'
<1> SUFFICES ASSUME UpgradeInv, [UpgradeNext]_upgradeVars PROVE StagesInStep'
  OBVIOUS
<1>1. StagesInStep /\ UpgradeTypeOK /\ stage \in 1..Stages /\ Stages \in Nat
  BY UpgradeAssumption DEF UpgradeInv, UpgradeTypeOK
<1>2. /\ results \in Seq({"pending", "failed", "passed"}) /\ Len(results) \in Nat
      /\ DOMAIN results = 1..Len(results)
  BY <1>1 DEF UpgradeTypeOK
<1>3. /\ inventories \in Seq(InventorySet) /\ Len(inventories) \in Nat
  BY InventoriesSeq
<1>4. FailStage => StagesInStep'
  BY DEF FailStage, StagesInStep, Active, InStage
<1>5. CASE StartRun
  <2>1. CASE upc' = "sha"
    <3>1. /\ upc = "start" /\ after # Stages
          /\ UNCHANGED <<outcome, after, stage, results, inventories>>
      BY <1>5, <2>1 DEF StartRun, input
    <3>2. stage = 1 /\ Len(results) = 0 /\ Len(inventories) = 0
      BY <1>1, <3>1 DEF StagesInStep
    <3> QED
      BY <1>1, <2>1, <3>1, <3>2 DEF StagesInStep, Active, InStage
  <2>2. CASE upc' = "end" /\ outcome' = "failed"
    BY <2>2 DEF StagesInStep, Active, InStage
  <2> QED
    BY <1>5, <2>1, <2>2 DEF StartRun
<1>6. CASE BeginStage
  <2>1. CASE upc' = "install"
    <3>1. /\ upc = "sha" /\ results' = Append(results, "pending")
          /\ UNCHANGED <<outcome, after, stage, inventories>>
      BY <1>6, <2>1 DEF BeginStage, input
    <3>2. Len(results) = stage - 1 /\ Len(inventories) = stage - 1 /\ after # Stages
      BY <1>1, <3>1 DEF StagesInStep, Active, InStage
    <3>3. Len(results') = stage /\ \A n \in 1..(stage - 1) : results'[n] = "passed"
      BY <1>1, <1>2, <3>1, <3>2 DEF StagesInStep, Active, InStage
    <3> QED
      BY <1>1, <2>1, <3>1, <3>2, <3>3 DEF StagesInStep, Active, InStage
  <2>2. CASE upc' = "cleanup" /\ outcome' = "failing"
    BY <2>2 DEF StagesInStep, Active, InStage
  <2> QED
    BY <1>6, <2>1, <2>2 DEF BeginStage
<1>7. CASE \/ upc = "install" /\ upc' = "migrate"
           \/ upc = "migrate" /\ upc' = "inventory"
           \/ upc = "seed" /\ upc' = "capture"
           \/ upc = "capture" /\ upc' = "createdb"
           \/ upc = "createdb" /\ upc' = "restore"
           \/ upc = "restore" /\ upc' = "compare"
           \/ upc = "compare" /\ upc' = "unlink"
           \/ upc \in {"seed", "capture", "createdb", "restore", "compare"} /\ upc' = "unlink-failed"
           \/ upc \in {"unlink", "verify"} /\ upc' = "summary"
  <2>1. UNCHANGED <<stage, after, results, inventories, outcome>>
    <3>1. \/ Install \/ Migrate \/ Seed \/ Dump \/ CreateDb \/ Restore \/ Compare \/ FinishRoundTrip
          \/ VerifyFixture
      BY <1>7 DEF UpgradeNext, StartRun, BeginStage, CheckInventory, PassStage, Cleanup, FinishRun, RunnerDies,
                  upgradeVars
    <3>2. upc' # "cleanup"
      BY <1>7
    <3> QED
      BY <3>1, <3>2 DEF Install, Migrate, Seed, Dump, CreateDb, Restore, Compare, FinishRoundTrip, VerifyFixture,
                        Continue, FailStage, RoundTripFails, input
  <2> QED
    BY <1>1, <1>7, <2>1 DEF StagesInStep, Active, InStage
<1>8. CASE CheckInventory
  <2>1. CASE Continue(NextInStage) /\ inventories' = Append(inventories, Inventory)
    <3>1. /\ upc = "inventory" /\ upc' \in {"seed", "verify", "summary"}
          /\ UNCHANGED <<stage, after, results, outcome>>
      BY <1>8, <2>1 DEF CheckInventory, Continue, NextInStage, input
    <3>2. Len(inventories') = stage
      BY <2>1, <3>1, Appended
    <3> QED
      BY <1>1, <3>1, <3>2 DEF StagesInStep, Active, InStage
  <2> QED
    BY <1>4, <1>8, <2>1, CheckEffect
<1>9. CASE PassStage
  <2>1. CASE FailStage
    BY <1>4, <2>1
  <2>2. CASE ~FailStage
    <3>1. /\ upc = "summary" /\ results' = [results EXCEPT ![stage] = "passed"]
          /\ UNCHANGED <<after, inventories>>
          /\ \/ stage = Stages /\ upc' = "cleanup" /\ outcome' = "passing" /\ stage' = stage
             \/ stage # Stages /\ upc' = "sha" /\ stage' = stage + 1 /\ outcome' = outcome
      BY <1>9, <2>2 DEF PassStage, input
    <3>2. /\ Len(results) = stage /\ Len(inventories) = stage /\ after # Stages /\ outcome = "running"
          /\ \A n \in 1..(stage - 1) : results[n] = "passed"
      BY <1>1, <3>1 DEF StagesInStep, Active, InStage
    <3>3. /\ results' \in Seq({"pending", "failed", "passed"})
          /\ Len(results') = stage /\ DOMAIN results' = 1..stage
          /\ results'[stage] = "passed"
          /\ \A k \in 1..stage \ {stage} : results'[k] = results[k]
      BY <1>1, <1>2, <3>1, <3>2, ResultReplaced
    <3>4. \A n \in 1..stage : results'[n] = "passed"
      BY <1>1, <3>2, <3>3
    <3>5. CASE stage = Stages /\ upc' = "cleanup" /\ outcome' = "passing" /\ stage' = stage
      <4>1. results' = [n \in 1..Stages |-> "passed"]
        BY <3>3, <3>4, <3>5
      <4> QED
        BY <3>1, <3>2, <3>5, <4>1 DEF StagesInStep, Active, InStage
    <3>6. CASE upc' = "sha" /\ stage' = stage + 1 /\ outcome' = outcome
      <4>1. stage' - 1 = stage
        BY <1>1, <3>6
      <4> QED
        BY <3>1, <3>2, <3>3, <3>4, <3>6, <4>1 DEF StagesInStep, Active, InStage
    <3> QED
      BY <3>1, <3>5, <3>6
  <2> QED
    BY <2>1, <2>2
<1>10. CASE Cleanup
  BY <1>1, <1>10 DEF Cleanup, StagesInStep, Active, InStage, input
<1>11. CASE FinishRun
  <2>1. /\ upc = "final" /\ upc' = "end" /\ UNCHANGED <<after, stage, results, inventories>>
        /\ outcome' = "failed" \/ (outcome = "passing" /\ outcome' = "passed")
    BY <1>11 DEF FinishRun, input
  <2> QED
    BY <1>1, <2>1 DEF StagesInStep, Active, InStage
<1>12. CASE RunnerDies
  BY <1>12 DEF RunnerDies, StagesInStep, Active, InStage
<1>13. CASE UNCHANGED upgradeVars
  BY <1>1, <1>13 DEF upgradeVars, StagesInStep, Active, input
<1> HIDE DEF FailStage
<1>14. CASE Install \/ Migrate \/ Seed \/ Dump \/ CreateDb \/ Restore \/ Compare \/ FinishRoundTrip \/ VerifyFixture
  <2>1. \/ FailStage
        \/ upc = "install" /\ upc' = "migrate"
        \/ upc = "migrate" /\ upc' = "inventory"
        \/ upc = "seed" /\ upc' = "capture"
        \/ upc = "capture" /\ upc' = "createdb"
        \/ upc = "createdb" /\ upc' = "restore"
        \/ upc = "restore" /\ upc' = "compare"
        \/ upc = "compare" /\ upc' = "unlink"
        \/ upc \in {"seed", "capture", "createdb", "restore", "compare"} /\ upc' = "unlink-failed"
        \/ upc \in {"unlink", "verify"} /\ upc' = "summary"
    BY <1>14 DEF Install, Migrate, Seed, Dump, CreateDb, Restore, Compare, FinishRoundTrip, VerifyFixture,
                 Continue, RoundTripFails
  <2> QED
    BY <1>4, <1>7, <2>1
<1> QED
  BY <1>5, <1>6, <1>8, <1>9, <1>10, <1>11, <1>12, <1>13, <1>14 DEF UpgradeNext

-----------------------------------------------------------------------------
(* The inventories.                                                        *)

LEMMA InputKept ==
  [UpgradeNext]_upgradeVars => /\ UNCHANGED <<checkout, policy, after>>
                               /\ \A n : FilesOf(n)' = FilesOf(n)
<1>1. [UpgradeNext]_upgradeVars => UNCHANGED <<checkout, policy, after>>
  BY DEF UpgradeNext, StartRun, BeginStage, Install, Migrate, CheckInventory, Seed, Dump, CreateDb, Restore,
         Compare, FinishRoundTrip, VerifyFixture, PassStage, Cleanup, FinishRun, RunnerDies, upgradeVars, input
<1>2. UNCHANGED checkout => \A n : FilesOf(n)' = FilesOf(n)
  BY DEF FilesOf
<1> QED
  BY <1>1, <1>2

(* A step within a stage that does not change the applied migrations, or   *)
(* one that leaves the stages.                                             *)
LEMMA InventoriesKept ==
  ASSUME UpgradeInv, UNCHANGED <<checkout, inventories>>,
         \/ upc' \in {"unlink-failed", "cleanup", "final", "end"}
         \/ /\ stage' = stage /\ StageDb'.applied = StageDb.applied
            /\ \/ {upc, upc'} \subseteq {"sha", "install", "migrate"}
               \/ {upc, upc'} \subseteq {"seed", "capture", "createdb", "restore", "compare", "unlink",
                                         "verify", "summary"}
               \/ upc' = upc
  PROVE  InventoriesTrue'
<1>1. InventoriesTrue
  BY DEF UpgradeInv
<1>2. \A n : FilesOf(n)' = FilesOf(n)
  BY DEF FilesOf
<1>3. FilesOf(stage') = FilesOf(stage)' \/ stage' # stage
  BY DEF FilesOf
<1> DEFINE S == Seq([stage : 1..Stages, available : [Migrations -> Fingerprints \cup {Absent}],
                     applied : SUBSET Migrations,
                     deps : SUBSET UNION {UNION {c[n].dists : n \in 1..Stages} : c \in Checkouts}])
<1>4. inventories' \in S
  BY <1>1 DEF InventoriesTrue
<1>5. \A n \in DOMAIN inventories' :
        /\ inventories'[n].available = checkout'[n].files
        /\ n > 1 => inventories'[n].applied = inventories'[n - 1].applied \cup FilesOf(n)'
  BY <1>1, <1>2 DEF InventoriesTrue
<1>6. CASE upc' \in {"unlink-failed", "cleanup", "final", "end"}
  BY <1>4, <1>5, <1>6 DEF InventoriesTrue
<1>7. CASE /\ stage' = stage /\ StageDb'.applied = StageDb.applied
           /\ \/ {upc, upc'} \subseteq {"sha", "install", "migrate"}
              \/ {upc, upc'} \subseteq {"seed", "capture", "createdb", "restore", "compare", "unlink",
                                        "verify", "summary"}
              \/ upc' = upc
  <2>1. FilesOf(stage)' = FilesOf(stage)
    BY <1>7 DEF FilesOf
  <2>2. \A p \in {"sha", "install", "migrate"} : p # "inventory"
    OBVIOUS
  <2> QED
    BY <1>1, <1>4, <1>5, <1>7, <2>1 DEF InventoriesTrue
<1> QED
  BY <1>6, <1>7

LEMMA InventoriesStep == UpgradeInv /\ [UpgradeNext]_upgradeVars => InventoriesTrue'
<1> SUFFICES ASSUME UpgradeInv, [UpgradeNext]_upgradeVars PROVE InventoriesTrue'
  OBVIOUS
<1>1. /\ UNCHANGED <<checkout, policy, after>>
      /\ \A n : FilesOf(n)' = FilesOf(n)
  BY InputKept
<1>2. InventoriesTrue /\ UpgradeTypeOK /\ StagesInStep /\ stage \in 1..Stages /\ Stages \in Nat
  BY UpgradeAssumption DEF UpgradeInv, UpgradeTypeOK
<1>3. CASE upc' \in {"unlink-failed", "cleanup", "final", "end"} /\ inventories' = inventories
  BY <1>1, <1>3, InventoriesKept
<1>4. CASE StartRun
  <2>1. CASE upc' = "end"
    BY <1>3, <1>4, <2>1 DEF StartRun
  <2>2. CASE upc' = "sha"
    <3>1. stage' = 1 /\ inventories' = inventories
      BY <1>2, <1>4, <2>2 DEF StartRun, StagesInStep
    <3> QED
      BY <1>1, <1>2, <2>2, <3>1 DEF InventoriesTrue
  <2> QED
    BY <1>4, <2>1, <2>2 DEF StartRun
<1>5. CASE BeginStage \/ Install
  <2>1. /\ UNCHANGED <<inventories, stage, dbs, env>> /\ upc \in {"sha", "install"}
        /\ upc' \in {"install", "migrate", "cleanup"}
    BY <1>5 DEF BeginStage, Install, Continue, FailStage
  <2>2. StageDb' = StageDb
    BY <2>1 DEF StageDb
  <2> QED
    BY <1>1, <2>1, <2>2, InventoriesKept
<1>6. CASE Migrate
  <2>1. upc = "migrate" /\ upc' \in {"inventory", "cleanup"} /\ UNCHANGED <<inventories, stage, env>>
    BY <1>6 DEF Migrate, Continue, FailStage
  <2>2. CASE upc' = "inventory"
    <3>1. PICK c \in Contents : /\ dbs' = [dbs EXCEPT ![env] = c]
                                /\ c.applied = StageDb.applied \cup FilesOf(stage)
      BY <1>6, <2>2, MigrateEffect
    <3>2. StageDb' = c
      BY <1>2, <2>1, <3>1 DEF StageDb, UpgradeTypeOK
    <3>3. FilesOf(stage)' = FilesOf(stage)
      BY <1>1, <2>1 DEF FilesOf
    <3>4. stage > 1 => StageDb'.applied = inventories[stage - 1].applied \cup FilesOf(stage)
      BY <1>2, <2>1, <3>1, <3>2 DEF InventoriesTrue
    <3> QED
      BY <1>1, <1>2, <2>1, <2>2, <3>3, <3>4 DEF InventoriesTrue
  <2> QED
    BY <1>3, <2>1, <2>2
<1>7. CASE CheckInventory
  <2>1. CASE inventories' = Append(inventories, Inventory)
    <3>1. upc = "inventory" /\ UNCHANGED <<stage, dbs, env>>
          /\ upc' \in {"cleanup", "seed", "verify", "summary"}
      BY <1>7, CheckEffect DEF CheckInventory, FailStage, Continue, NextInStage
    <3>2. /\ inventories' \in Seq(InventorySet) /\ Len(inventories) = stage - 1
          /\ DOMAIN inventories = 1..(stage - 1) /\ DOMAIN inventories' = 1..stage
          /\ \A n \in 1..(stage - 1) : inventories'[n] = inventories[n]
          /\ inventories'[stage] = Inventory
      BY <2>1, <3>1, Appended
    <3>3. Inventory.available = checkout[stage].files /\ Inventory.applied = StageDb.applied
      BY <3>1, InventoryFields
    <3>4. StageDb' = StageDb
      BY <3>1 DEF StageDb
    <3>5. stage > 1 => StageDb.applied = inventories[stage - 1].applied \cup FilesOf(stage)
      BY <1>2, <3>1 DEF InventoriesTrue
    <3>6. ASSUME NEW n \in 1..stage
          PROVE  /\ inventories'[n].available = checkout'[n].files
                 /\ n > 1 => inventories'[n].applied = inventories'[n - 1].applied \cup FilesOf(n)'
      <4>1. CASE n = stage
        <5>1. n > 1 => n - 1 \in 1..(stage - 1)
          BY <1>2, <4>1
        <5> QED
          BY <1>1, <3>2, <3>3, <3>5, <4>1, <5>1
      <4>2. CASE n \in 1..(stage - 1)
        <5>1. n > 1 => n - 1 \in 1..(stage - 1)
          BY <1>2, <4>2
        <5>2. /\ inventories[n].available = checkout[n].files
              /\ n > 1 => inventories[n].applied = inventories[n - 1].applied \cup FilesOf(n)
          BY <1>2, <3>2, <4>2 DEF InventoriesTrue
        <5> QED
          BY <1>1, <3>2, <4>2, <5>1, <5>2
      <4> QED
        BY <1>2, <4>1, <4>2
    <3>7. StageDb'.applied = inventories'[stage'].applied
      BY <3>1, <3>2, <3>3, <3>4
    <3> QED
      BY <3>1, <3>2, <3>6, <3>7 DEF InventoriesTrue, InventorySet
  <2>2. CASE FailStage /\ inventories' = inventories
    BY <1>3, <2>2 DEF FailStage
  <2> QED
    BY <1>7, <2>1, <2>2, CheckEffect
<1>8. CASE Seed
  <2>1. upc = "seed" /\ UNCHANGED <<inventories, stage, env>>
    BY <1>8 DEF Seed
  <2>2. upc' \in {"capture", "unlink-failed", "cleanup"}
    BY <1>8, SeedEffect
  <2>3. CASE upc' = "capture"
    <3>1. /\ dbs' = [dbs EXCEPT ![Original] = [dbs[Original] EXCEPT !.fixture = "seeded"]]
          /\ dbs[Original] \in Contents /\ env = Original
      BY <1>8, <2>3, SeedEffect
    <3>2. dbs'[Original].applied = dbs[Original].applied
      BY <1>2, <3>1, ContentsFields DEF UpgradeTypeOK
    <3>3. StageDb'.applied = StageDb.applied
      BY <2>1, <3>1, <3>2 DEF StageDb
    <3> QED
      BY <1>1, <2>1, <2>3, <3>3, InventoriesKept
  <2> QED
    BY <1>3, <2>1, <2>2, <2>3
<1>9. CASE Dump \/ CreateDb \/ Restore \/ Compare
  <2>1. /\ upc \in {"capture", "createdb", "restore", "compare"} /\ UNCHANGED <<inventories, stage, env>>
        /\ upc' \in {"createdb", "restore", "compare", "unlink", "unlink-failed"}
    BY <1>9 DEF Dump, CreateDb, Restore, Compare, Continue, RoundTripFails
  <2>2. dbs'[Original] = dbs[Original]
    BY <1>2, <1>9 DEF Dump, CreateDb, Restore, Compare, UpgradeTypeOK, Original, Snapshot
  <2>3. env = Original
    BY <2>1 DEF UpgradeInv, RoundTripOnce
  <2>4. StageDb' = StageDb
    BY <2>1, <2>2, <2>3 DEF StageDb
  <2> QED
    BY <1>1, <2>1, <2>4, InventoriesKept
<1>10. CASE FinishRoundTrip
  <2>1. CASE upc' = "summary"
    <3>1. upc = "unlink" /\ env' = Snapshot /\ UNCHANGED <<dbs, inventories, stage>>
      BY <1>10, <2>1 DEF FinishRoundTrip, FailStage
    <3>2. State(dbs[Snapshot]) = source /\ source = State(dbs[Original]) /\ env = Original
      BY <3>1 DEF UpgradeInv, SourceTrue, RoundTripOnce
    <3>3. dbs[Snapshot].applied = dbs[Original].applied
      BY <3>2 DEF State
    <3>4. StageDb'.applied = StageDb.applied
      BY <3>1, <3>2, <3>3 DEF StageDb
    <3> QED
      BY <1>1, <2>1, <3>1, <3>4, InventoriesKept
  <2> QED
    BY <1>3, <1>10, <2>1 DEF FinishRoundTrip, FailStage, Continue
<1>11. CASE VerifyFixture
  <2>1. /\ UNCHANGED <<inventories, stage, dbs, env>> /\ upc = "verify" /\ upc' \in {"summary", "cleanup"}
    BY <1>11 DEF VerifyFixture, Continue, FailStage
  <2>2. StageDb' = StageDb
    BY <2>1 DEF StageDb
  <2> QED
    BY <1>1, <2>1, <2>2, InventoriesKept
<1>12. CASE PassStage
  <2>1. /\ UNCHANGED <<inventories, dbs, env>> /\ upc = "summary"
        /\ upc' = "cleanup" \/ (upc' = "sha" /\ stage' = stage + 1)
    BY <1>12 DEF PassStage, FailStage
  <2>2. CASE upc' = "sha" /\ stage' = stage + 1
    <3>1. stage' - 1 = stage
      BY <1>2, <2>2
    <3>2. StageDb' = StageDb
      BY <2>1 DEF StageDb
    <3>3. StageDb.applied = inventories[stage].applied
      BY <1>2, <2>1 DEF InventoriesTrue
    <3> QED
      BY <1>1, <1>2, <2>1, <2>2, <3>1, <3>2, <3>3 DEF InventoriesTrue
  <2> QED
    BY <1>3, <2>1, <2>2
<1>13. CASE Cleanup \/ FinishRun \/ RunnerDies
  BY <1>3, <1>13 DEF Cleanup, FinishRun, RunnerDies
<1>14. CASE UNCHANGED upgradeVars
  <2>1. UNCHANGED <<inventories, stage, dbs, env, upc>>
    BY <1>14 DEF upgradeVars
  <2>2. StageDb' = StageDb
    BY <2>1 DEF StageDb
  <2> QED
    BY <1>1, <2>1, <2>2, InventoriesKept
<1> QED
  BY <1>4, <1>5, <1>6, <1>7, <1>8, <1>9, <1>10, <1>11, <1>12, <1>13, <1>14 DEF UpgradeNext

-----------------------------------------------------------------------------
(* The comparison of the inventories.                                      *)

LEMMA FirstChosen ==
  ASSUME NEW invs, NEW N \in Nat, DOMAIN invs = 1..N, NEW m, NEW f \in 1..N,
         m \in invs[f].applied, \A k \in 1..(f - 1) : m \notin invs[k].applied
  PROVE  FirstFingerprint(invs, m) = invs[f].available[m]
<1> DEFINE P(i) == m \in invs[i].applied /\ \A j \in 1..(i - 1) : m \notin invs[j].applied
           n == CHOOSE i \in DOMAIN invs : P(i)
<1>1. f \in DOMAIN invs /\ P(f)
  OBVIOUS
<1>2. n \in DOMAIN invs /\ P(n)
  BY <1>1
<1>3. n = f
  <2>1. ~(n < f)
    <3>1. n < f => n \in 1..(f - 1)
      BY <1>2
    <3> QED
      BY <1>2, <3>1
  <2>2. ~(f < n)
    <3>1. f < n => f \in 1..(n - 1)
      BY <1>2
    <3> QED
      BY <1>2, <3>1
  <2>3. n \in Nat /\ f \in Nat
    BY <1>2
  <2> QED
    BY <2>1, <2>2, <2>3
<1> HIDE DEF n
<1>4. FirstFingerprint(invs, m) = invs[n].available[m]
  BY DEF FirstFingerprint, n
<1> QED
  BY <1>3, <1>4

LEMMA FirstAppended ==
  ASSUME UpgradeInv, CheckInventory, inventories' = Append(inventories, Inventory)
  PROVE  /\ \A m : \A f \in 1..(stage - 1) : FirstAt(m, f)' <=> FirstAt(m, f)
         /\ \A m : FirstAt(m, stage)' <=>
              m \in Inventory.applied /\ \A k \in 1..(stage - 1) : m \notin inventories[k].applied
         /\ \A m : FirstAt(m, stage') <=> FirstAt(m, stage)
<1>1. upc = "inventory" /\ stage' = stage
  BY DEF CheckInventory
<1>2. /\ DOMAIN inventories = 1..(stage - 1) /\ DOMAIN inventories' = 1..stage
      /\ \A n \in 1..(stage - 1) : inventories'[n] = inventories[n]
      /\ inventories'[stage] = Inventory
  BY <1>1, Appended
<1>3. stage \in Nat /\ stage >= 1
  BY UpgradeAssumption DEF UpgradeInv, UpgradeTypeOK
<1>4. ASSUME NEW m, NEW f \in 1..(stage - 1) PROVE FirstAt(m, f)' <=> FirstAt(m, f)
  <2>1. /\ f \in DOMAIN inventories /\ f \in DOMAIN inventories' /\ inventories'[f] = inventories[f]
        /\ \A k \in 1..(f - 1) : inventories'[k] = inventories[k]
    BY <1>2, <1>3, <1>4
  <2> QED
    BY <2>1 DEF FirstAt
<1>5. ASSUME NEW m
      PROVE  FirstAt(m, stage)' <=>
               m \in Inventory.applied /\ \A k \in 1..(stage - 1) : m \notin inventories[k].applied
  BY <1>1, <1>2, <1>3 DEF FirstAt
<1> QED
  BY <1>1, <1>4, <1>5

LEMMA FirstStep == UpgradeInv /\ [UpgradeNext]_upgradeVars => FirstKnown'
<1> SUFFICES ASSUME UpgradeInv, [UpgradeNext]_upgradeVars PROVE FirstKnown'
  OBVIOUS
<1>1. FirstKnown
  BY DEF UpgradeInv
<1>2. CASE UNCHANGED inventories
  BY <1>1, <1>2 DEF FirstKnown, FirstAt
<1>3. CASE CheckInventory /\ inventories' = Append(inventories, Inventory)
  <2>1. upc = "inventory" /\ stage' = stage
    BY <1>3 DEF CheckInventory
  <2>2. /\ DOMAIN inventories = 1..(stage - 1) /\ DOMAIN inventories' = 1..stage
        /\ \A n \in 1..(stage - 1) : inventories'[n] = inventories[n]
        /\ inventories'[stage] = Inventory
    BY <1>3, <2>1, Appended
  <2>3. stage \in Nat /\ stage >= 1
    BY UpgradeAssumption DEF UpgradeInv, UpgradeTypeOK
  <2>4. ASSUME NEW i \in 1..(stage - 1), NEW m \in inventories[i].applied
        PROVE  \E f \in 1..i : f \in 1..(stage - 1) /\ FirstAt(m, f)'
    <3>1. PICK f \in 1..i : FirstAt(m, f)
      BY <1>1, <2>2, <2>4 DEF FirstKnown
    <3>2. f \in 1..(stage - 1)
      BY <2>3, <2>4, <3>1
    <3>3. FirstAt(m, f)'
      BY <1>3, <3>1, <3>2, FirstAppended
    <3> QED
      BY <3>2, <3>3
  <2>5. ASSUME NEW i \in 1..stage, NEW m \in inventories'[i].applied
        PROVE  \E f \in 1..i : FirstAt(m, f)'
    <3>1. CASE i \in 1..(stage - 1)
      <4>1. m \in inventories[i].applied
        BY <2>2, <2>5, <3>1
      <4> QED
        BY <2>4, <3>1, <4>1
    <3>2. CASE i = stage /\ \E k \in 1..(stage - 1) : m \in inventories[k].applied
      <4>1. PICK k \in 1..(stage - 1) : m \in inventories[k].applied
        BY <3>2
      <4>2. PICK f \in 1..k : FirstAt(m, f)'
        BY <2>4, <4>1
      <4>3. f \in 1..i
        BY <2>3, <3>2, <4>1, <4>2
      <4> QED
        BY <4>2, <4>3
    <3>3. CASE i = stage /\ ~\E k \in 1..(stage - 1) : m \in inventories[k].applied
      <4>1. m \in Inventory.applied
        BY <2>2, <2>5, <3>3
      <4>2. FirstAt(m, stage)'
        BY <1>3, <3>3, <4>1, FirstAppended
      <4>3. FirstAt(m, i)'
        BY <2>1, <3>3, <4>2 DEF FirstAt
      <4>4. i \in 1..i
        BY <2>3, <3>3
      <4> QED
        BY <4>3, <4>4
    <3> QED
      BY <2>3, <3>1, <3>2, <3>3
  <2> QED
    BY <2>2, <2>5 DEF FirstKnown
<1>4. UNCHANGED inventories \/ (CheckInventory /\ inventories' = Append(inventories, Inventory))
  BY CheckEffect DEF UpgradeNext, StartRun, BeginStage, Install, Migrate, Seed, Dump, CreateDb, Restore,
         Compare, FinishRoundTrip, VerifyFixture, PassStage, Cleanup, FinishRun, RunnerDies, upgradeVars
<1> QED
  BY <1>2, <1>3, <1>4

LEMMA GoodBefore == UpgradeInv /\ [UpgradeNext]_upgradeVars /\ Good' => Good
<1> SUFFICES ASSUME UpgradeInv, [UpgradeNext]_upgradeVars, Good' PROVE Good
  OBVIOUS
<1>1. ~FailStage
  BY DEF FailStage, Good
<1>2. StagesInStep
  BY DEF UpgradeInv
<1>3. CASE PassStage
  BY <1>2, <1>3 DEF PassStage, StagesInStep, Active, InStage, Good
<1>4. CASE FinishRun
  BY <1>4 DEF FinishRun, Good
<1>5. CASE ~PassStage /\ ~FinishRun
  <2>1. outcome' = outcome
    BY <1>1, <1>5, CheckEffect
       DEF UpgradeNext, StartRun, BeginStage, Install, Migrate, Seed, Dump, CreateDb, Restore, Compare,
           FinishRoundTrip, VerifyFixture, Cleanup, RunnerDies, upgradeVars, Continue, RoundTripFails, Good
  <2> QED
    BY <2>1 DEF Good
<1> QED
  BY <1>3, <1>4, <1>5

LEMMA ComparedStep == UpgradeInv /\ [UpgradeNext]_upgradeVars => Compared'
<1> SUFFICES ASSUME UpgradeInv, [UpgradeNext]_upgradeVars, Good',
                    NEW m \in policy'.enforced, NEW j \in DOMAIN inventories', NEW f \in 1..j,
                    FirstAt(m, f)'
             PROVE  /\ checkout'[j].files[m] = Absent => m \in policy'.missing
                    /\ /\ checkout'[j].files[m] # Absent /\ checkout'[f].files[m] # Absent
                       /\ checkout'[j].files[m] # checkout'[f].files[m]
                       => m \in policy'.changed
  BY DEF Compared
<1>1. UNCHANGED <<checkout, policy, after>>
  BY InputKept
<1>2. Good
  BY GoodBefore
<1>3. ASSUME j \in DOMAIN inventories, FirstAt(m, f)
      PROVE  /\ checkout[j].files[m] = Absent => m \in policy.missing
             /\ /\ checkout[j].files[m] # Absent /\ checkout[f].files[m] # Absent
                /\ checkout[j].files[m] # checkout[f].files[m]
                => m \in policy.changed
  BY <1>1, <1>2, <1>3 DEF UpgradeInv, Compared
<1>4. CASE UNCHANGED inventories
  <2>1. FirstAt(m, f)
    BY <1>4 DEF FirstAt
  <2> QED
    BY <1>1, <1>3, <1>4, <2>1
<1>5. CASE CheckInventory /\ inventories' = Append(inventories, Inventory)
  <2>1. upc = "inventory" /\ stage' = stage
    BY <1>5 DEF CheckInventory
  <2>2. /\ DOMAIN inventories = 1..(stage - 1) /\ DOMAIN inventories' = 1..stage
        /\ \A n \in 1..(stage - 1) : inventories'[n] = inventories[n]
        /\ inventories'[stage] = Inventory /\ Len(inventories') = stage
    BY <1>5, <2>1, Appended
  <2>3. stage \in Nat /\ stage >= 1
    BY UpgradeAssumption DEF UpgradeInv, UpgradeTypeOK
  <2>4. CASE j \in 1..(stage - 1)
    <3>1. f \in 1..(stage - 1)
      BY <2>3, <2>4
    <3>2. FirstAt(m, f)
      BY <1>5, <3>1, FirstAppended
    <3> QED
      BY <1>1, <1>3, <2>2, <2>4, <3>2
  <2>5. CASE j = stage
    <3>1. ~FailStage
      BY DEF FailStage, Good
    <3>2. PolicyViolations(inventories') = {}
      <4>1. inventories' # inventories
        BY <2>2, <2>3
      <4> QED
        BY <1>5, <3>1, <4>1, CheckEffect
    <3>3. f \in 1..stage
      BY <2>5
    <3>4. m \in inventories'[f].applied /\ \A k \in 1..(f - 1) : m \notin inventories'[k].applied
      BY DEF FirstAt
    <3>5. FirstFingerprint(inventories', m) = inventories'[f].available[m]
      <4>1. PICK invs : invs = inventories'
        OBVIOUS
      <4>2. /\ DOMAIN invs = 1..stage /\ m \in invs[f].applied
            /\ \A k \in 1..(f - 1) : m \notin invs[k].applied
        BY <2>2, <3>4, <4>1
      <4>3. FirstFingerprint(invs, m) = invs[f].available[m]
        BY <2>3, <3>3, <4>2, FirstChosen
      <4> QED
        BY <4>1, <4>3
    <3>6. inventories'[f].available = checkout[f].files /\ inventories'[stage].available = checkout[stage].files
      <4>1. InventoriesTrue'
        BY InventoriesStep
      <4>2. stage \in 1..stage
        BY <2>3
      <4> QED
        BY <1>1, <2>2, <3>3, <4>1, <4>2 DEF InventoriesTrue
    <3>7. inventories'[Len(inventories')].available = checkout[stage].files
      BY <2>2, <3>6
    <3>8. m \in policy.enforced /\ \E i \in DOMAIN inventories' : m \in inventories'[i].applied
      BY <1>1, <2>2, <3>3, <3>4
    <3>9. ~(\/ checkout[stage].files[m] = Absent /\ m \notin policy.missing
            \/ /\ checkout[stage].files[m] # Absent /\ checkout[f].files[m] # Absent
               /\ checkout[stage].files[m] # checkout[f].files[m] /\ m \notin policy.changed)
      BY <3>2, <3>5, <3>6, <3>7, <3>8 DEF PolicyViolations
    <3> QED
      BY <1>1, <2>5, <3>9
  <2> QED
    BY <2>2, <2>3, <2>4, <2>5
<1>6. UNCHANGED inventories \/ (CheckInventory /\ inventories' = Append(inventories, Inventory))
  BY CheckEffect DEF UpgradeNext, StartRun, BeginStage, Install, Migrate, Seed, Dump, CreateDb, Restore,
         Compare, FinishRoundTrip, VerifyFixture, PassStage, Cleanup, FinishRun, RunnerDies, upgradeVars
<1> QED
  BY <1>4, <1>5, <1>6

LEMMA PinnedStep == UpgradeInv /\ [UpgradeNext]_upgradeVars => Pinned'
<1> SUFFICES ASSUME UpgradeInv, [UpgradeNext]_upgradeVars, Good',
                    NEW n \in DOMAIN inventories'
             PROVE  PinnedAt(n)'
  BY DEF Pinned
<1>1. UNCHANGED <<checkout, policy, after>>
  BY InputKept
<1>2. PinnedAt(n)' <=> PinnedAt(n)
  BY <1>1 DEF PinnedAt
<1>3. \A k \in DOMAIN inventories : PinnedAt(k)
  BY GoodBefore DEF UpgradeInv, Pinned
<1>4. CASE UNCHANGED inventories
  BY <1>2, <1>3, <1>4
<1>5. CASE CheckInventory /\ inventories' = Append(inventories, Inventory)
  <2>1. upc = "inventory"
    BY <1>5 DEF CheckInventory
  <2>2. /\ DOMAIN inventories = 1..(stage - 1) /\ DOMAIN inventories' = 1..stage
        /\ Len(inventories') = stage
    BY <1>5, <2>1, Appended
  <2>3. stage \in Nat /\ stage >= 1
    BY UpgradeAssumption DEF UpgradeInv, UpgradeTypeOK
  <2>4. ProvenanceViolations(Inventory) = {}
    <3>1. ~FailStage
      BY DEF FailStage, Good
    <3>2. inventories' # inventories
      BY <2>2, <2>3
    <3> QED
      BY <1>5, <3>1, <3>2, CheckEffect
  <2>5. Inventory.stage = stage /\ Inventory.deps = {d \in checkout[stage].dists : d.vcs # Absent}
    BY DEF Inventory, VcsDependencies
  <2>6. PinnedAt(stage)
    BY <2>4, <2>5 DEF ProvenanceViolations, PinnedAt
  <2> QED
    BY <1>2, <1>3, <2>2, <2>3, <2>6
<1>6. UNCHANGED inventories \/ (CheckInventory /\ inventories' = Append(inventories, Inventory))
  BY CheckEffect DEF UpgradeNext, StartRun, BeginStage, Install, Migrate, Seed, Dump, CreateDb, Restore,
         Compare, FinishRoundTrip, VerifyFixture, PassStage, Cleanup, FinishRun, RunnerDies, upgradeVars
<1> QED
  BY <1>4, <1>5, <1>6

-----------------------------------------------------------------------------
(* The round trip.                                                         *)

LEMMA RoundTripStep == UpgradeInv /\ [UpgradeNext]_upgradeVars => RoundTripOnce'
<1> SUFFICES ASSUME UpgradeInv, [UpgradeNext]_upgradeVars PROVE RoundTripOnce'
  OBVIOUS
<1>1. /\ RoundTripOnce /\ stage \in Nat /\ stage >= 1 /\ after \in Nat
      /\ env \in {Original, Snapshot} /\ after' = after /\ Original # Snapshot
  BY UpgradeAssumption, InputKept DEF UpgradeInv, UpgradeTypeOK, Original, Snapshot
<1>2. CASE upc' \in {"cleanup", "final", "end"}
  BY <1>2 DEF RoundTripOnce, Active, InStage
<1>3. CASE StartRun
  <2>1. upc' = "sha" => /\ UNCHANGED <<stage, env, expected>> /\ stage = 1 /\ env = Original /\ expected = Absent
    BY <1>1, <1>3 DEF StartRun, RoundTripOnce, UpgradeInv, StagesInStep, UpgradeTypeOK
  <2> QED
    BY <1>1, <1>2, <1>3, <2>1 DEF StartRun, RoundTripOnce, Active, InStage
<1>4. CASE BeginStage \/ Install \/ Migrate
  <2>1. /\ UNCHANGED <<stage, env, expected>> /\ upc \in {"sha", "install", "migrate"}
        /\ upc' \in {"install", "migrate", "inventory", "cleanup"}
    BY <1>4 DEF BeginStage, Install, Migrate, Continue, FailStage
  <2> QED
    BY <1>1, <1>2, <2>1 DEF RoundTripOnce, Active, InStage
<1>5. CASE CheckInventory
  <2>1. /\ UNCHANGED <<stage, env, expected>> /\ upc = "inventory"
        /\ upc' = "cleanup" \/ upc' = NextInStage
    BY <1>5, CheckEffect DEF CheckInventory, Continue, FailStage
  <2> QED
    BY <1>1, <1>2, <2>1 DEF RoundTripOnce, Active, InStage, NextInStage
<1>6. CASE Seed \/ Dump \/ CreateDb \/ Restore \/ Compare
  <2>1. /\ UNCHANGED <<stage, env, expected>>
        /\ upc \in {"seed", "capture", "createdb", "restore", "compare"}
        /\ upc' \in {"capture", "createdb", "restore", "compare", "unlink", "unlink-failed", "cleanup"}
    BY <1>6 DEF Seed, Dump, CreateDb, Restore, Compare, Continue, RoundTripFails, FailStage
  <2> QED
    BY <1>1, <1>2, <2>1 DEF RoundTripOnce, Active, InStage
<1>7. CASE FinishRoundTrip
  <2>1. /\ UNCHANGED stage /\ upc \in {"unlink", "unlink-failed"}
        /\ \/ upc' = "cleanup"
           \/ upc' = "summary" /\ env' = Snapshot
    BY <1>7 DEF FinishRoundTrip, Continue, FailStage
  <2> QED
    BY <1>1, <1>2, <2>1 DEF RoundTripOnce, Active, InStage
<1>8. CASE VerifyFixture
  <2>1. /\ UNCHANGED <<stage, env, expected>> /\ upc = "verify" /\ upc' \in {"summary", "cleanup"}
    BY <1>8 DEF VerifyFixture, Continue, FailStage
  <2> QED
    BY <1>1, <1>2, <2>1 DEF RoundTripOnce, Active, InStage
<1>9. CASE PassStage
  <2>1. /\ UNCHANGED <<env, expected>> /\ upc = "summary"
        /\ upc' = "cleanup" \/ (upc' = "sha" /\ stage' = stage + 1)
    BY <1>9 DEF PassStage, FailStage
  <2> QED
    BY <1>1, <1>2, <2>1 DEF RoundTripOnce, Active, InStage
<1>10. CASE Cleanup \/ FinishRun \/ RunnerDies
  BY <1>2, <1>10 DEF Cleanup, FinishRun, RunnerDies
<1>11. CASE UNCHANGED upgradeVars
  BY <1>1, <1>11 DEF upgradeVars, RoundTripOnce, Active
<1> QED
  BY <1>3, <1>4, <1>5, <1>6, <1>7, <1>8, <1>9, <1>10, <1>11 DEF UpgradeNext

LEMMA SourceStep == UpgradeInv /\ [UpgradeNext]_upgradeVars => SourceTrue'
<1> SUFFICES ASSUME UpgradeInv, [UpgradeNext]_upgradeVars PROVE SourceTrue'
  OBVIOUS
<1>1. SourceTrue /\ RoundTripOnce /\ UpgradeTypeOK
  BY DEF UpgradeInv
<1>2. CASE upc' \notin {"capture", "createdb", "restore", "compare", "unlink"}
  BY <1>2 DEF SourceTrue
<1>3. CASE Seed
  <2>1. CASE upc' = "capture"
    <3>1. /\ dbs' = [dbs EXCEPT ![Original] = [dbs[Original] EXCEPT !.fixture = "seeded"]]
          /\ dbs[Original] \in Contents
      BY <1>3, <2>1, SeedEffect
    <3>2. dbs'[Original].fixture = "seeded"
      BY <1>1, <3>1, ContentsFields DEF UpgradeTypeOK
    <3> QED
      BY <2>1, <3>2 DEF SourceTrue
  <2> QED
    BY <1>2, <1>3, <2>1, SeedEffect
<1>4. CASE Dump
  <2>1. CASE upc' = "createdb"
    <3>1. upc = "capture" /\ source' = State(StageDb) /\ StateValid(source') /\ UNCHANGED dbs
      BY <1>4, <2>1 DEF Dump, RoundTripFails
    <3>2. StageDb = dbs[Original] /\ dbs[Original].fixture = "seeded"
      BY <1>1, <3>1 DEF RoundTripOnce, SourceTrue, StageDb
    <3>3. source' = State(dbs'[Original]) /\ source'.fixture = "seeded"
      BY <3>1, <3>2 DEF State, Identity
    <3> QED
      BY <2>1, <3>1, <3>3 DEF SourceTrue
  <2> QED
    BY <1>2, <1>4, <2>1 DEF Dump, Continue, RoundTripFails
<1>5. CASE CreateDb \/ Restore
  <2>1. /\ upc \in {"createdb", "restore"} /\ UNCHANGED source
        /\ upc' \in {"restore", "compare", "unlink-failed"}
        /\ dbs'[Original] = dbs[Original]
    BY <1>1, <1>5 DEF CreateDb, Restore, Continue, RoundTripFails, UpgradeTypeOK, Original, Snapshot
  <2>2. [applied |-> {}, fixture |-> Absent] \in Contents
    BY DEF Contents
  <2>3. upc' # "unlink-failed" => dbs'[Snapshot] \in Contents
    BY <1>1, <1>5, <2>2 DEF CreateDb, Restore, Continue, RoundTripFails, UpgradeTypeOK
  <2> QED
    BY <1>1, <2>1, <2>3 DEF SourceTrue
<1>6. CASE Compare
  <2>1. CASE upc' = "unlink"
    <3>1. upc = "compare" /\ State(dbs[Snapshot]) = source /\ StateValid(source) /\ UNCHANGED <<dbs, source>>
      BY <1>6, <2>1 DEF Compare, RoundTripFails
    <3>2. dbs[Snapshot] \in Contents
      BY <1>1, <3>1 DEF SourceTrue
    <3> QED
      BY <1>1, <2>1, <3>1, <3>2 DEF SourceTrue
  <2> QED
    BY <1>2, <1>6, <2>1 DEF Compare, Continue, RoundTripFails
<1>7. CASE UNCHANGED upgradeVars
  BY <1>1, <1>7 DEF upgradeVars, SourceTrue
<1>8. CASE \/ StartRun \/ BeginStage \/ Install \/ Migrate \/ CheckInventory \/ FinishRoundTrip \/ VerifyFixture
           \/ PassStage \/ Cleanup \/ FinishRun \/ RunnerDies
  <2>1. upc' \notin {"capture", "createdb", "restore", "compare", "unlink"}
    BY <1>8, CheckEffect
       DEF StartRun, BeginStage, Install, Migrate, FinishRoundTrip, VerifyFixture, PassStage, Cleanup, FinishRun,
           RunnerDies, Continue, FailStage, NextInStage
  <2> QED
    BY <1>2, <2>1
<1> QED
  BY <1>3, <1>4, <1>5, <1>6, <1>7, <1>8 DEF UpgradeNext

(* A step of a stage that works on the copy.                               *)
LEMMA CopyKept ==
  ASSUME UpgradeInv, Active, env = Snapshot, UNCHANGED <<after, env, source, expected>>,
         dbs'[Original] = dbs[Original], dbs'[Snapshot] \in Contents,
         \/ inventories' = inventories
         \/ upc = "inventory" /\ inventories' = Append(inventories, Inventory),
         upc' \in {"summary", "cleanup"} => Identity(dbs'[Snapshot]) = expected
  PROVE  CopyTrue'
<1>1. /\ State(dbs[Original]) = source /\ source.fixture = "seeded" /\ expected = "seeded"
      /\ Absent # "seeded" /\ source.applied = inventories[after].applied
      /\ \A n \in after..Len(inventories) : source.applied \subseteq inventories[n].applied
  BY DEF UpgradeInv, CopyTrue
<1>2. State(dbs'[Original]) = source
  BY <1>1 DEF State, Identity
<1>3. /\ stage \in Nat /\ stage >= 1 /\ after \in Nat /\ after >= 1
      /\ after <= stage /\ (upc = "inventory" => after < stage)
  BY UpgradeAssumption DEF UpgradeInv, UpgradeTypeOK, RoundTripOnce
<1>4. /\ source.applied = inventories'[after].applied
      /\ \A n \in after..Len(inventories') : source.applied \subseteq inventories'[n].applied
  <2>1. CASE inventories' = inventories
    BY <1>1, <2>1
  <2>2. CASE upc = "inventory" /\ inventories' = Append(inventories, Inventory)
    <3>1. /\ Len(inventories) = stage - 1 /\ Len(inventories') = stage
          /\ \A n \in 1..(stage - 1) : inventories'[n] = inventories[n]
          /\ inventories'[stage] = Inventory
      BY <2>2, Appended
    <3>2. Inventory.applied = StageDb.applied
      BY <2>2, InventoryFields
    <3>3. StageDb.applied = inventories[stage - 1].applied \cup FilesOf(stage)
      BY <1>3, <2>2 DEF UpgradeInv, InventoriesTrue
    <3>4. after \in 1..(stage - 1) /\ stage - 1 \in after..Len(inventories)
      BY <1>3, <2>2, <3>1
    <3>5. source.applied \subseteq Inventory.applied
      BY <1>1, <3>2, <3>3, <3>4
    <3>6. ASSUME NEW n \in after..stage PROVE source.applied \subseteq inventories'[n].applied
      <4>1. CASE n = stage
        BY <3>1, <3>5, <4>1
      <4>2. CASE n # stage
        <5>1. n \in after..Len(inventories) /\ n \in 1..(stage - 1)
          BY <1>3, <3>1, <4>2
        <5> QED
          BY <1>1, <3>1, <5>1
      <4> QED
        BY <4>1, <4>2
    <3> QED
      BY <1>1, <3>1, <3>4, <3>6
  <2> QED
    BY <2>1, <2>2
<1> QED
  BY <1>1, <1>2, <1>4 DEF CopyTrue

LEMMA CopyStep == UpgradeInv /\ [UpgradeNext]_upgradeVars => CopyTrue'
<1> SUFFICES ASSUME UpgradeInv, [UpgradeNext]_upgradeVars PROVE CopyTrue'
  OBVIOUS
<1>1. /\ CopyTrue /\ RoundTripOnce /\ UpgradeTypeOK /\ StagesInStep
      /\ after' = after /\ Original # Snapshot
      /\ stage \in Nat /\ stage >= 1 /\ stage <= Stages /\ after \in Nat /\ Stages \in Nat
  BY InputKept, UpgradeAssumption DEF UpgradeInv, UpgradeTypeOK, Original, Snapshot
<1>2. CASE ~(Active' /\ env' = Snapshot) /\ ~(upc' = "cleanup" /\ outcome' = "passing" /\ after # 0)
  BY <1>1, <1>2 DEF CopyTrue
<1>3. CASE FailStage
  BY <1>2, <1>3 DEF FailStage, Active, InStage
<1>4. CASE StartRun
  <2>1. env' = Original /\ upc' # "cleanup"
    BY <1>1, <1>4 DEF StartRun, RoundTripOnce
  <2> QED
    BY <1>1, <1>2, <2>1
<1>5. CASE BeginStage \/ Install
  <2>1. /\ UNCHANGED <<env, source, expected, dbs, inventories>> /\ upc \in {"sha", "install"}
        /\ \/ upc' \in {"install", "migrate"}
           \/ upc' = "cleanup" /\ outcome' = "failing"
    BY <1>5 DEF BeginStage, Install, Continue, FailStage
  <2>2. CASE env = Snapshot /\ upc' # "cleanup"
    <3>1. Active /\ dbs[Snapshot] \in Contents
      BY <1>1, <2>1, <2>2 DEF Active, InStage, CopyTrue
    <3> QED
      BY <1>1, <2>1, <2>2, <3>1, CopyKept
  <2> QED
    BY <1>2, <2>1, <2>2 DEF Active, InStage
<1>6. CASE Migrate /\ ~FailStage
  <2>1. /\ UNCHANGED <<env, source, expected, inventories>> /\ upc = "migrate" /\ upc' = "inventory"
    BY <1>6, MigrateEffect DEF Migrate
  <2>2. PICK c \in Contents : dbs' = [dbs EXCEPT ![env] = c]
    BY <1>6, MigrateEffect
  <2>3. CASE env = Snapshot
    <3>1. dbs'[Original] = dbs[Original] /\ dbs'[Snapshot] \in Contents
      BY <1>1, <2>2, <2>3 DEF UpgradeTypeOK
    <3>2. Active
      BY <2>1 DEF Active, InStage
    <3> QED
      BY <1>1, <2>1, <2>3, <3>1, <3>2, CopyKept
  <2> QED
    BY <1>2, <2>1, <2>3
<1>7. CASE CheckInventory /\ ~FailStage
  <2>1. /\ UNCHANGED <<env, source, expected, dbs>> /\ upc = "inventory" /\ upc' = NextInStage
        /\ inventories' = Append(inventories, Inventory)
    BY <1>7, CheckEffect DEF CheckInventory, Continue
  <2>2. CASE env = Snapshot
    <3>1. Active /\ dbs[Snapshot] \in Contents /\ expected # Absent
      BY <1>1, <2>1, <2>2 DEF Active, InStage, CopyTrue
    <3>2. upc' \in {"seed", "verify"}
      BY <2>1, <3>1 DEF NextInStage
    <3> QED
      BY <1>1, <2>1, <2>2, <3>1, <3>2, CopyKept
  <2> QED
    BY <1>2, <2>1, <2>2 DEF NextInStage
<1>8. CASE Seed \/ Dump \/ CreateDb \/ Restore \/ Compare
  <2>1. /\ env' = Original
        /\ upc' \in {"capture", "createdb", "restore", "compare", "unlink", "unlink-failed", "cleanup"}
        /\ upc' = "cleanup" => FailStage
    BY <1>1, <1>8 DEF Seed, Dump, CreateDb, Restore, Compare, Continue, RoundTripFails, FailStage, RoundTripOnce
  <2> QED
    BY <1>1, <1>2, <1>3, <2>1
<1>9. CASE FinishRoundTrip /\ ~FailStage
  <2>1. /\ upc = "unlink" /\ upc' = "summary" /\ expected' = source.fixture /\ env' = Snapshot
        /\ UNCHANGED <<dbs, inventories, source, stage>>
    BY <1>9 DEF FinishRoundTrip, Continue
  <2>2. /\ source = State(dbs[Original]) /\ StateValid(source) /\ source.fixture = "seeded"
        /\ State(dbs[Snapshot]) = source /\ dbs[Snapshot] \in Contents
        /\ stage = after /\ env = Original
    BY <1>1, <2>1 DEF UpgradeInv, SourceTrue, RoundTripOnce
  <2>3. Absent # "seeded" /\ source.applied = dbs[Original].applied /\ Identity(dbs[Snapshot]) = source.fixture
    BY <2>2 DEF StateValid, State, Identity
  <2>4. source.applied = inventories[after].applied /\ Len(inventories) = after
    BY <1>1, <2>1, <2>2, <2>3 DEF UpgradeInv, InventoriesTrue, StageDb, StagesInStep, Active, InStage
  <2>5. \A n \in after..Len(inventories) : n = after
    BY <1>1, <2>4
  <2> QED
    BY <1>1, <2>1, <2>2, <2>3, <2>4, <2>5 DEF CopyTrue
<1>10. CASE VerifyFixture /\ ~FailStage
  <2>1. /\ UNCHANGED <<env, source, expected, dbs, inventories>> /\ upc = "verify" /\ upc' = "summary"
        /\ Identity(StageDb) = expected
    BY <1>10 DEF VerifyFixture, Continue
  <2>2. env = Snapshot /\ Active
    BY <1>1, <2>1 DEF RoundTripOnce, Active, InStage
  <2>3. dbs[Snapshot] \in Contents /\ Identity(dbs'[Snapshot]) = expected
    BY <1>1, <2>1, <2>2 DEF CopyTrue, StageDb
  <2> QED
    BY <1>1, <2>1, <2>2, <2>3, CopyKept
<1>11. CASE PassStage /\ ~FailStage
  <2>1. /\ UNCHANGED <<env, source, expected, dbs, inventories>> /\ upc = "summary"
        /\ upc' = "sha" \/ (upc' = "cleanup" /\ stage = Stages)
    BY <1>11 DEF PassStage
  <2>2. Active /\ after # Stages
    BY <1>1, <2>1 DEF Active, InStage, StagesInStep
  <2>3. CASE env = Snapshot
    <3>1. dbs[Snapshot] \in Contents /\ Identity(dbs[Snapshot]) = expected
      BY <1>1, <2>1, <2>2, <2>3 DEF CopyTrue
    <3> QED
      BY <1>1, <2>1, <2>2, <2>3, <3>1, CopyKept
  <2>4. CASE env # Snapshot
    <3>1. upc' = "cleanup" => after = 0
      BY <1>1, <2>1, <2>2, <2>4 DEF RoundTripOnce, UpgradeTypeOK
    <3> QED
      BY <1>2, <2>1, <2>4, <3>1
  <2> QED
    BY <2>3, <2>4
<1>12. CASE Cleanup \/ FinishRun \/ RunnerDies
  BY <1>2, <1>12 DEF Cleanup, FinishRun, RunnerDies, Active, InStage
<1>13. CASE UNCHANGED upgradeVars
  <2>1. UNCHANGED <<upc, env, outcome, after, source, expected, dbs, inventories>>
    BY <1>13 DEF upgradeVars, input
  <2> QED
    BY <1>1, <2>1 DEF CopyTrue, Active, State, Identity
<1> QED
  BY <1>3, <1>4, <1>5, <1>6, <1>7, <1>8, <1>9, <1>10, <1>11, <1>12, <1>13 DEF UpgradeNext

-----------------------------------------------------------------------------
(* What is left behind, and the summary.                                   *)

LEMMA LeftStep == UpgradeInv /\ [UpgradeNext]_upgradeVars => LeftKnown'
<1> SUFFICES ASSUME UpgradeInv, [UpgradeNext]_upgradeVars PROVE LeftKnown'
  OBVIOUS
<1>1. /\ LeftKnown /\ RoundTripOnce /\ UpgradeTypeOK /\ StagesInStep /\ Original # Snapshot
  BY DEF UpgradeInv, Original, Snapshot
<1>2. CASE StartRun
  <2>1. /\ UNCHANGED <<dbs, env, named, warning, dump>> /\ upc = "start" /\ upc' \in {"sha", "end"}
        /\ outcome' \in {outcome, "failed"}
    BY <1>2 DEF StartRun, files
  <2>2. /\ env = Original /\ dump = Absent /\ outcome = "running" /\ ~named /\ ~warning
    BY <1>1, <2>1 DEF LeftKnown, RoundTripOnce, StagesInStep
  <2>3. dbs[Snapshot] \in {Absent, Late}
    BY <1>1, <2>2 DEF LeftKnown
  <2>4. ~named' /\ ~warning' /\ dbs'[Snapshot] \in {Absent, Late} /\ dump' = Absent /\ env' = Original
    BY <2>1, <2>2, <2>3
  <2> QED
    BY <1>1, <2>1, <2>4 DEF LeftKnown, Active, InStage
<1>3. CASE BeginStage \/ Install
  <2>1. /\ UNCHANGED <<dbs, env, named, warning, dump>> /\ upc \in {"sha", "install"}
        /\ \/ upc' \in {"install", "migrate"} /\ outcome' = outcome
           \/ upc' = "cleanup" /\ outcome' = "failing"
    BY <1>3 DEF BeginStage, Install, Continue, FailStage, files
  <2> QED
    BY <1>1, <2>1 DEF LeftKnown, StagesInStep, Active, InStage
<1>4. CASE Migrate
  <2>1. /\ UNCHANGED <<env, named, warning, dump>> /\ upc = "migrate"
        /\ \/ upc' = "inventory" /\ outcome' = outcome
           \/ upc' = "cleanup" /\ outcome' = "failing"
    BY <1>4 DEF Migrate, Continue, FailStage, files
  <2>2. \E c \in Contents : dbs' = [dbs EXCEPT ![env] = c]
    BY <1>4, MigrateEffect
  <2>3. dbs'[Snapshot] = dbs[Snapshot] \/ env = Snapshot
    BY <1>1, <2>2 DEF UpgradeTypeOK
  <2> QED
    BY <1>1, <2>1, <2>3 DEF LeftKnown, StagesInStep, Active, InStage
<1>5. CASE CheckInventory
  <2>1. /\ UNCHANGED <<dbs, env, named, warning, dump>> /\ upc = "inventory"
        /\ \/ upc' \in {"seed", "verify", "summary"} /\ outcome' = outcome
           \/ upc' = "cleanup" /\ outcome' = "failing"
    BY <1>5, CheckEffect DEF CheckInventory, Continue, FailStage, NextInStage, files
  <2> QED
    BY <1>1, <2>1 DEF LeftKnown, StagesInStep, Active, InStage
<1>6. CASE Seed
  <2>1. /\ UNCHANGED <<env, warning, dump>> /\ upc = "seed" /\ env = Original
        /\ \/ upc' \in {"capture", "unlink-failed"} /\ outcome' = outcome /\ named' = TRUE
           \/ upc' = "cleanup" /\ outcome' = "failing" /\ UNCHANGED <<dbs, named>>
    BY <1>1, <1>6 DEF Seed, Continue, RoundTripFails, FailStage, RoundTripOnce, files
  <2>2. dbs'[Snapshot] = dbs[Snapshot]
    BY <1>1, <1>6, SeedEffect DEF UpgradeTypeOK
  <2> QED
    BY <1>1, <2>1, <2>2 DEF LeftKnown, StagesInStep, Active, InStage
<1>7. CASE Dump
  <2>1. /\ UNCHANGED <<dbs, env, named, warning, outcome>> /\ upc = "capture" /\ env = Original
        /\ upc' \in {"createdb", "unlink-failed"}
    BY <1>1, <1>7 DEF Dump, Continue, RoundTripFails, RoundTripOnce
  <2> QED
    BY <1>1, <2>1 DEF LeftKnown, StagesInStep, Active, InStage
<1>8. CASE CreateDb \/ Restore \/ Compare
  <2>1. /\ UNCHANGED <<env, named, warning, outcome, dump>> /\ upc \in {"createdb", "restore", "compare"}
        /\ upc' \in {"restore", "compare", "unlink", "unlink-failed"} /\ env = Original
    BY <1>1, <1>8 DEF CreateDb, Restore, Compare, Continue, RoundTripFails, RoundTripOnce, files
  <2>2. named
    BY <1>1, <2>1 DEF LeftKnown
  <2> QED
    BY <1>1, <2>1, <2>2 DEF LeftKnown, StagesInStep, Active, InStage
<1>9. CASE FinishRoundTrip
  <2>1. /\ UNCHANGED <<dbs, named>> /\ upc \in {"unlink", "unlink-failed"}
        /\ \/ upc' = "summary" /\ outcome' = outcome /\ dump' = Absent /\ warning' = warning
           \/ upc' = "cleanup" /\ outcome' = "failing" /\ dump' = Absent /\ warning' = warning
           \/ upc' = "cleanup" /\ outcome' = "failing" /\ warning' = TRUE
    BY <1>9 DEF FinishRoundTrip, Continue, FailStage
  <2>2. named /\ (outcome = "running" => ~warning)
    BY <1>1, <2>1 DEF LeftKnown
  <2>3. named' /\ (outcome' = "running" => ~warning')
    BY <2>1, <2>2
  <2>4. dump' # Absent => warning'
    BY <2>1
  <2> QED
    BY <2>1, <2>3, <2>4 DEF LeftKnown, Active, InStage
<1>10. CASE VerifyFixture \/ PassStage
  <2>1. /\ UNCHANGED <<dbs, env, named, warning, dump>> /\ upc \in {"verify", "summary"}
        /\ \/ upc' \in {"summary", "sha"} /\ outcome' = outcome
           \/ upc' = "cleanup" /\ outcome' \in {"failing", "passing"}
    BY <1>10 DEF VerifyFixture, PassStage, Continue, FailStage, files
  <2>2. dump = Absent \/ warning
    BY <1>1, <2>1 DEF LeftKnown, StagesInStep, Active, InStage
  <2> QED
    BY <1>1, <2>1, <2>2 DEF LeftKnown, StagesInStep, Active, InStage
<1>11. CASE Cleanup
  <2>1. /\ upc = "cleanup" /\ upc' = "final" /\ UNCHANGED <<dump, outcome>> /\ named' = FALSE
        /\ \/ dbs' = dbs /\ warning' = warning /\ ~named
           \/ dbs' = [dbs EXCEPT ![Snapshot] = Absent] /\ warning' = warning
           \/ dbs' = dbs /\ warning' = warning /\ dbs[Snapshot] = Late
           \/ warning' = TRUE
    BY <1>11 DEF Cleanup, files
  <2>2. dbs'[Snapshot] \notin {Absent, Late} => warning' \/ outcome = "died"
    BY <1>1, <2>1 DEF LeftKnown, UpgradeTypeOK
  <2>3. dump' # Absent => warning' \/ outcome = "died"
    BY <1>1, <2>1 DEF LeftKnown
  <2>4. outcome \in {"passing", "failing"} /\ outcome' # "running" /\ ~named'
    BY <1>1, <2>1 DEF StagesInStep
  <2> QED
    BY <2>1, <2>2, <2>3, <2>4 DEF LeftKnown, Active, InStage
<1>12. CASE FinishRun
  <2>1. /\ upc = "final" /\ upc' = "end" /\ UNCHANGED <<dbs, warning, dump, named>>
        /\ outcome' \in {"passed", "failed"}
    BY <1>12 DEF FinishRun
  <2>2. outcome # "died"
    BY <1>1, <2>1 DEF StagesInStep
  <2>3. ~named /\ (dbs[Snapshot] \notin {Absent, Late} => warning) /\ (dump # Absent => warning)
    BY <1>1, <2>1, <2>2 DEF LeftKnown
  <2>4. ~named' /\ (dbs'[Snapshot] \notin {Absent, Late} => warning') /\ (dump' # Absent => warning')
    BY <2>1, <2>3
  <2> QED
    BY <2>1, <2>4 DEF LeftKnown, Active, InStage
<1>13. CASE RunnerDies
  BY <1>13 DEF RunnerDies, LeftKnown, Active, InStage
<1>14. CASE UNCHANGED upgradeVars
  BY <1>1, <1>14 DEF upgradeVars, LeftKnown, Active
<1> QED
  BY <1>2, <1>3, <1>4, <1>5, <1>6, <1>7, <1>8, <1>9, <1>10, <1>11, <1>12, <1>13, <1>14 DEF UpgradeNext

(* A step that writes no summary, though it may spoil the last one.        *)
LEMMA SummaryKept ==
  ASSUME UpgradeInv, summary' \in {summary, Absent},
         \/ results' = results /\ stage' = stage /\ (Active' => Active \/ upc = "start")
         \/ upc = "sha" /\ stage' = stage /\ \E r \in {"pending", "failed"} : results' = Append(results, r)
         \/ upc \in InStage /\ FailStage
  PROVE  SummaryBehind'
<1>1. /\ stage \in Nat /\ stage >= 1 /\ results \in Seq({"pending", "failed", "passed"})
      /\ DOMAIN results = 1..Len(results) /\ Len(results) \in Nat
  BY UpgradeAssumption DEF UpgradeInv, UpgradeTypeOK
<1>2. CASE summary' = Absent
  BY <1>2 DEF SummaryBehind
<1>3. CASE summary' = summary /\ summary # Absent
  <2>1. /\ Active => DOMAIN summary.results \subseteq 1..(stage - 1)
        /\ DOMAIN summary.results \subseteq DOMAIN results
        /\ \A n \in DOMAIN summary.results : summary.results[n] = "passed" => results[n] = "passed"
    BY <1>3 DEF UpgradeInv, SummaryBehind
  <2>2. CASE results' = results /\ stage' = stage /\ (Active' => Active \/ upc = "start")
    <3>1. upc = "start" => DOMAIN summary.results \subseteq {}
      BY <2>1 DEF UpgradeInv, StagesInStep
    <3> QED
      BY <1>3, <2>1, <2>2, <3>1 DEF SummaryBehind
  <2>3. CASE upc = "sha" /\ stage' = stage /\ \E r \in {"pending", "failed"} : results' = Append(results, r)
    <3>1. PICK r \in {"pending", "failed"} : results' = Append(results, r)
      BY <2>3
    <3>2. Len(results) = stage - 1 /\ Active
      BY <2>3 DEF UpgradeInv, StagesInStep, Active, InStage
    <3>3. DOMAIN results' = 1..stage /\ \A n \in 1..(stage - 1) : results'[n] = results[n]
      BY <1>1, <3>1, <3>2
    <3>4. DOMAIN summary.results \subseteq 1..(stage - 1) /\ 1..(stage - 1) \subseteq 1..stage
      BY <1>1, <2>1, <3>2
    <3> QED
      BY <1>3, <2>1, <2>3, <3>3, <3>4 DEF SummaryBehind
  <2>4. CASE upc \in InStage /\ FailStage
    <3>1. results' = [results EXCEPT ![stage] = "failed"] /\ ~Active'
      BY <2>4 DEF FailStage, Active, InStage
    <3>2. DOMAIN results' = DOMAIN results /\ \A n \in DOMAIN results \ {stage} : results'[n] = results[n]
      BY <1>1, <3>1
    <3>3. \A n \in DOMAIN summary.results : n \in DOMAIN results \ {stage}
      BY <1>1, <2>1, <2>4 DEF Active
    <3> QED
      BY <1>3, <2>1, <3>1, <3>2, <3>3 DEF SummaryBehind
  <2> QED
    BY <2>2, <2>3, <2>4
<1> QED
  BY <1>2, <1>3

LEMMA SummaryStep == UpgradeInv /\ [UpgradeNext]_upgradeVars => SummaryBehind'
<1> SUFFICES ASSUME UpgradeInv, [UpgradeNext]_upgradeVars PROVE SummaryBehind'
  OBVIOUS
<1>1. CASE StartRun
  BY <1>1, SummaryKept DEF StartRun, files, Active
<1>2. CASE BeginStage
  BY <1>2, SummaryKept DEF BeginStage, files
<1>3. CASE Install \/ VerifyFixture
  BY <1>3, SummaryKept DEF Install, VerifyFixture, Continue, files, Active, InStage
<1>4. CASE Migrate
  BY <1>4, MigrateEffect, SummaryKept DEF Migrate, files, Active, InStage
<1>5. CASE CheckInventory
  <2>1. FailStage \/ Continue(NextInStage)
    BY <1>5, CheckEffect
  <2> QED
    BY <1>5, <2>1, SummaryKept DEF CheckInventory, Continue, files, Active, InStage
<1>6. CASE Seed
  <2>1. FailStage \/ UNCHANGED <<results, outcome>>
    BY <1>6, SeedEffect
  <2> QED
    BY <1>6, <2>1, SummaryKept DEF Seed, files, Active, InStage
<1>7. CASE Dump \/ CreateDb \/ Restore \/ Compare
  <2>1. UNCHANGED <<results, stage, summary>> /\ upc \in {"capture", "createdb", "restore", "compare"}
    BY <1>7 DEF Dump, CreateDb, Restore, Compare, Continue, RoundTripFails, files
  <2> QED
    BY <2>1, SummaryKept DEF Active, InStage
<1>8. CASE FinishRoundTrip
  BY <1>8, SummaryKept DEF FinishRoundTrip, Continue, Active, InStage
<1>9. CASE PassStage
  <2> DEFINE passed == [results EXCEPT ![stage] = "passed"]
  <2>1. CASE FailStage /\ summary' \in {summary, Absent} /\ UNCHANGED stage
    BY <1>9, <2>1, SummaryKept DEF PassStage, InStage
  <2>2. CASE /\ results' = passed /\ summary' = Summary(passed)
             /\ IF stage = Stages THEN upc' = "cleanup" /\ outcome' = "passing" /\ UNCHANGED stage
                                  ELSE upc' = "sha" /\ stage' = stage + 1 /\ UNCHANGED outcome
    <3>1. /\ stage \in Nat /\ stage >= 1 /\ results \in Seq({"pending", "failed", "passed"})
          /\ Len(results) = stage
      BY <1>9, UpgradeAssumption DEF PassStage, UpgradeInv, UpgradeTypeOK, StagesInStep, Active, InStage
    <3>2. DOMAIN passed = 1..stage
      BY <3>1
    <3> HIDE DEF passed
    <3>3. summary'.results = passed /\ results' = passed
      BY <2>2 DEF Summary
    <3>4. Active' => stage' = stage + 1
      BY <2>2 DEF Active, InStage
    <3>5. Active' => DOMAIN passed \subseteq 1..(stage' - 1)
      BY <3>1, <3>2, <3>4
    <3> QED
      BY <3>3, <3>5 DEF SummaryBehind
  <2> QED
    BY <1>9, <2>1, <2>2 DEF PassStage
<1>10. CASE Cleanup
  BY <1>10, SummaryKept DEF Cleanup, files, Active, InStage
<1>11. CASE FinishRun
  <2>1. UNCHANGED <<results, stage>> /\ upc' = "end" /\ ~Active'
    BY <1>11 DEF FinishRun, Active, InStage
  <2>2. CASE summary' = Summary(results)
    BY <2>1, <2>2 DEF Summary, SummaryBehind
  <2>3. CASE summary' \in {summary, Absent}
    BY <2>1, <2>3, SummaryKept
  <2> QED
    BY <1>11, <2>2, <2>3 DEF FinishRun
<1>12. CASE RunnerDies
  BY <1>12, SummaryKept DEF RunnerDies, files, Active, InStage
<1>13. CASE UNCHANGED upgradeVars
  BY <1>13, SummaryKept DEF upgradeVars, Active
<1> QED
  BY <1>1, <1>2, <1>3, <1>4, <1>5, <1>6, <1>7, <1>8, <1>9, <1>10, <1>11, <1>12, <1>13 DEF UpgradeNext

LEMMA FinalStep == UpgradeInv /\ [UpgradeNext]_upgradeVars => FinalSummary'
<1> SUFFICES ASSUME UpgradeInv, [UpgradeNext]_upgradeVars, outcome' = "passed"
             PROVE  (summary = Summary(results))'
  BY DEF FinalSummary
<1>1. CASE FinishRun
  BY <1>1 DEF FinishRun, Summary
<1>2. CASE UNCHANGED upgradeVars
  BY <1>2 DEF upgradeVars, UpgradeInv, FinalSummary, Summary
<1>3. CASE UpgradeNext /\ ~FinishRun
  <2>1. ~FailStage
    BY DEF FailStage
  <2>2. upc # "end" /\ outcome = "passed"
    BY <1>3, <2>1, MigrateEffect, CheckEffect, SeedEffect
       DEF UpgradeNext, StartRun, BeginStage, Install, Migrate, CheckInventory, Seed, Dump, CreateDb, Restore,
           Compare, FinishRoundTrip, VerifyFixture, PassStage, Cleanup, RunnerDies, Continue, RoundTripFails
  <2> QED
    BY <2>2 DEF UpgradeInv, StagesInStep, UpgradeTypeOK, Active
<1> QED
  BY <1>1, <1>2, <1>3

-----------------------------------------------------------------------------
(* The theorems.                                                           *)

LEMMA UpgradeInvariant == UpgradeSpec => []UpgradeInv
<1>1. UpgradeInv /\ [UpgradeNext]_upgradeVars => UpgradeInv'
  BY UpgradeTypeStep, StagesStep, InventoriesStep, FirstStep, ComparedStep, RoundTripStep, SourceStep,
     CopyStep, PinnedStep, LeftStep, SummaryStep, FinalStep DEF UpgradeInv
<1> QED
  BY <1>1, UpgradeInitInv, PTL DEF UpgradeSpec

(***************************************************************************)
(* The rehearsal keeps its types; in particular the original database is   *)
(* never dropped, whatever fails (MigrationUpgradeRunner).                 *)
(***************************************************************************)
THEOREM UpgradeTypeCorrect == UpgradeSpec => []UpgradeTypeOK
<1>1. UpgradeInv => UpgradeTypeOK
  BY DEF UpgradeInv
<1> QED
  BY <1>1, UpgradeInvariant, PTL

(***************************************************************************)
(* For any number of stages, any checkouts and policies: a run that ends   *)
(* by itself leaves no temporary database and no dump behind, unless it    *)
(* has warned of them or the server was late with the database             *)
(* (_cleanup_snapshot_database, _run_snapshot_round_trip).                 *)
(***************************************************************************)
THEOREM NothingIsLeftBehind == UpgradeSpec => []NothingLeftBehind
<1>1. UpgradeInv => NothingLeftBehind
  <2> SUFFICES ASSUME UpgradeInv, outcome \in {"passed", "failed"}
               PROVE  (dbs[Snapshot] \in {Absent, Late} /\ dump = Absent) \/ warning
    BY DEF NothingLeftBehind
  <2>1. upc = "end" /\ outcome # "died"
    BY DEF UpgradeInv, StagesInStep, UpgradeTypeOK, Active
  <2>2. ~named
    BY <2>1 DEF UpgradeInv, LeftKnown
  <2> QED
    BY <2>1, <2>2 DEF UpgradeInv, LeftKnown
<1> QED
  BY <1>1, UpgradeInvariant, PTL

(* A migration that was first found without its file was applied before.   *)
LEMMA AbsentAtFirst ==
  ASSUME UpgradeInv, NEW m, NEW f, FirstAt(m, f), checkout[f].files[m] = Absent
  PROVE  f = 1
<1>1. f \in DOMAIN inventories /\ DOMAIN inventories = 1..Len(inventories) /\ Len(inventories) \in Nat
  BY InventoriesSeq DEF FirstAt
<1>2. CASE f > 1
  <2>1. inventories[f].applied = inventories[f - 1].applied \cup FilesOf(f)
    BY <1>1, <1>2 DEF UpgradeInv, InventoriesTrue
  <2>2. f - 1 \in 1..(f - 1)
    BY <1>1, <1>2
  <2>3. m \in FilesOf(f)
    BY <2>1, <2>2 DEF FirstAt
  <2> QED
    BY <2>3 DEF FilesOf
<1> QED
  BY <1>1, <1>2

LEMMA ChangesAllowed == UpgradeInv => NoSilentChange
<1> SUFFICES ASSUME UpgradeInv, outcome = "passed", NEW i \in 1..Stages, NEW j \in 1..Stages,
                    NEW m \in policy.enforced, i <= j, m \in inventories[i].applied
             PROVE  LET was == checkout[i].files[m]
                        is  == checkout[j].files[m]
                    IN \/ is = Absent /\ m \in policy.missing
                       \/ is # Absent /\ (was = is \/ was = Absent)
                       \/ is # Absent /\ m \in policy.changed
                       \/ is # Absent /\ m \in inventories[1].applied /\ checkout[1].files[m] = Absent
  BY DEF NoSilentChange
<1>1. Stages \in Nat /\ DOMAIN inventories = 1..Stages
  BY InventoriesSeq, UpgradeAssumption DEF UpgradeInv, StagesInStep
<1>2. PICK f \in 1..i : FirstAt(m, f)
  BY <1>1 DEF UpgradeInv, FirstKnown
<1>3. f \in 1..j
  BY <1>1, <1>2
<1> DEFINE first == checkout[f].files[m]
           was == checkout[i].files[m]
           is == checkout[j].files[m]
<1>4. /\ is = Absent => m \in policy.missing
      /\ is # Absent /\ first # Absent /\ is # first => m \in policy.changed
  BY <1>1, <1>2, <1>3 DEF UpgradeInv, Compared, Good
<1>5. was # Absent /\ first # Absent /\ was # first => m \in policy.changed
  BY <1>1, <1>2 DEF UpgradeInv, Compared, Good
<1>6. first = Absent => m \in inventories[1].applied /\ checkout[1].files[m] = Absent
  BY <1>2, AbsentAtFirst DEF FirstAt
<1> HIDE DEF first, was, is
<1>7. \/ is = Absent /\ m \in policy.missing
      \/ is # Absent /\ (was = is \/ was = Absent)
      \/ is # Absent /\ m \in policy.changed
      \/ is # Absent /\ m \in inventories[1].applied /\ checkout[1].files[m] = Absent
  BY <1>4, <1>5, <1>6
<1> QED
  BY <1>7 DEF is, was

(***************************************************************************)
(* For any number of stages, any checkouts and policies: a run that passes *)
(* has compared every enforced migration with the stage that first had it, *)
(* has gone on with a true copy whose data came through all later stages,  *)
(* has had pinned sources where it must, and has written a summary that    *)
(* says so (_inventory_events, _run_snapshot_round_trip,                   *)
(* validate_vcs_provenance, _write_summary).                               *)
(***************************************************************************)
THEOREM PassesAreEarned == UpgradeSpec => []PassIsEarned
<1>1. UpgradeInv => RehearsalFaithful
  <2> SUFFICES ASSUME UpgradeInv, upc = "cleanup", outcome = "passing", after # 0
               PROVE  /\ State(dbs[Original]) = source /\ source.fixture = "seeded"
                      /\ source.applied = inventories[after].applied
                      /\ \A n \in after..Stages : source.applied \subseteq inventories[n].applied
                      /\ Identity(dbs[Snapshot]) = source.fixture
    BY DEF RehearsalFaithful
  <2>1. Len(inventories) = Stages
    BY DEF UpgradeInv, StagesInStep
  <2> QED
    BY <2>1 DEF UpgradeInv, CopyTrue
<1>2. UpgradeInv => SummaryAgrees
  <2> SUFFICES ASSUME UpgradeInv PROVE SummaryAgrees
    OBVIOUS
  <2>1. outcome = "passed" => /\ summary.results = [n \in 1..Stages |-> "passed"]
                              /\ summary.warning = warning
    BY DEF UpgradeInv, FinalSummary, StagesInStep, Summary
  <2> QED
    BY <2>1 DEF UpgradeInv, SummaryBehind, SummaryAgrees
<1>3. UpgradeInv => SourcesPinned
  <2> SUFFICES ASSUME UpgradeInv, outcome = "passed", NEW n \in policy.immutable \cap (1..Stages)
               PROVE  PinnedAt(n)
    BY DEF SourcesPinned, PinnedAt
  <2>1. DOMAIN inventories = 1..Stages
    BY InventoriesSeq DEF UpgradeInv, StagesInStep
  <2> QED
    BY <2>1 DEF UpgradeInv, Pinned, Good
<1>4. UpgradeInv => PassIsEarned
  BY <1>1, <1>2, <1>3, ChangesAllowed DEF PassIsEarned
<1> QED
  BY <1>4, UpgradeInvariant, PTL
=============================================================================
