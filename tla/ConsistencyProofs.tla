-------------------------- MODULE ConsistencyProofs --------------------------
(***************************************************************************)
(* Proofs about two copies of the gateway's data and how far they may      *)
(* differ from it: the superusers of the services during                   *)
(* migrate_service_data, and the configuration cached for Envoy.           *)
(***************************************************************************)
EXTENDS SuperuserSync, XdsCache, TLAPS

-----------------------------------------------------------------------------
(* Superusers: the page in hand, and who is trusted.                       *)

(* The users of the page are there in the service, and in the gateway      *)
(* too once they are created.                                              *)
PageKnown ==
  pc \in {"create", "send"} =>
    \A u \in page : /\ up[at][u] # "none"
                    /\ (plan[u] # "keep" \/ pc = "send") => gateway[u] # "none"

(* Whoever is superuser of the gateway or of the controller, was found to  *)
(* be one, or is to be sent as one, is trusted.                            *)
AllTrusted ==
  /\ \A u \in Users : gateway[u] = "super" \/ up[Controller][u] = "super" => u \in trusted
  /\ found \subseteq trusted
  /\ pc \in {"create", "send"} => \A u \in page : plan[u] = "super" => u \in trusted

(* All that the service has has been handed over. *)
HandedOver(s) == \A u \in Users : up[s][u] # "none" => u \in ours[s]

(* The gateway has the superusers of service s, or did when the snapshot   *)
(* was taken.                                                              *)
Covered(s) == \A u \in Users : up[s][u] = "super" => u \in snapshot

(* How far the command has come, if nobody else changes anything.          *)
Undisturbed ==
  changes = 0 =>
    /\ (pc \in {"users", "create", "send"} /\ ~failedServices) =>
         \A s \in Services \ (left \cup {at}) : HandedOver(s)
    /\ pc \in {"snapshot", "collect", "demote"} => \A s \in Services : HandedOver(s)
    /\ pc \in {"collect", "demote", "done"} => \A u \in snapshot : gateway[u] = "super"
    /\ pc = "collect" => \A u \in Users : up[Controller][u] = "super" => u \in found \cup unseen
    /\ pc \in {"demote", "done"} => \A u \in Users : up[Controller][u] = "super" => gateway[u] = "super"
    /\ pc = "demote" => /\ \A s \in HubEda \ (left \cup {at}) : Covered(s)
                        /\ at \in HubEda \ left =>
                             \A u \in Users : up[at][u] = "super" => u \in snapshot \cup unseen \cup page
    /\ pc = "done" => \A s \in HubEda : Covered(s)

SyncInv == TypeOK /\ PageKnown /\ AllTrusted /\ Undisturbed

LEMMA SyncInit == Init => SyncInv
<1> SUFFICES ASSUME Init PROVE SyncInv
  OBVIOUS
<1>1. TypeOK
  BY BoundsAssumption DEF Init, TypeOK, Superusers, Known, Services
<1>2. PageKnown /\ AllTrusted /\ Undisturbed
  BY DEF Init, PageKnown, AllTrusted, Undisturbed, Superusers
<1> QED
  BY <1>1, <1>2 DEF SyncInv

(* Phases of the command that touch neither flags nor what is handed over. *)
LEMMA SyncTypeStep == TypeOK /\ PageKnown /\ [Next]_vars => TypeOK'
<1> SUFFICES ASSUME TypeOK, PageKnown, [Next]_vars PROVE TypeOK'
  OBVIOUS
<1> USE DEF listing, paging
<1>1. ASSUME Start PROVE TypeOK'
  <2>1. runs' \in Nat /\ left' \subseteq HubEda /\ at' \in Services
    BY <1>1 DEF Start, TypeOK, Services
  <2>2. failedServices' \in BOOLEAN
    BY <1>1 DEF Start
  <2>3. pc' = "users" /\ UNCHANGED <<gateway, up, ours, page, plan, snapshot, found, unseen, trusted, changes>>
    BY <1>1 DEF Start
  <2> QED
    BY <2>1, <2>2, <2>3 DEF TypeOK
<1>2. ASSUME SyncFlags PROVE TypeOK'
  <2>1. PICK p \in SUBSET (Known(at) \ ours[at]) \ {{}} :
          /\ page' = p /\ gateway' = Promoted(p)
          /\ plan' = [u \in p |-> IF gateway[u] = "none" THEN "keep" ELSE gateway'[u]]
    BY <1>2 DEF SyncFlags
  <2>2. p \subseteq Users
    BY DEF Known
  <2>3. gateway' \in [Users -> Levels] /\ \A u \in Users : gateway[u] # "none" => gateway'[u] \in {"user", "super"}
    BY <2>1 DEF Promoted, TypeOK, Levels
  <2>4. plan' \in [p -> {"keep", "user", "super"}]
    BY <2>1, <2>2, <2>3
  <2>5. ours' \in [Services -> SUBSET {u \in Users : gateway'[u] # "none"}]
    BY <1>2, <2>3 DEF SyncFlags, TypeOK
  <2> QED
    BY <1>2, <2>1, <2>2, <2>3, <2>4, <2>5 DEF SyncFlags, TypeOK
<1>3. ASSUME CreateUsers PROVE TypeOK'
  <2>1. gateway' \in [Users -> Levels] /\ \A u \in Users : gateway[u] # "none" => gateway'[u] # "none"
    BY <1>3 DEF CreateUsers, NewLevel, TypeOK, PageKnown, Levels
  <2>2. ours' \in [Services -> SUBSET {u \in Users : gateway'[u] # "none"}]
    BY <1>3, <2>1 DEF CreateUsers, TypeOK
  <2> QED
    BY <1>3, <2>1, <2>2 DEF CreateUsers, TypeOK
<1>4. ASSUME SendPage PROVE TypeOK'
  <2>1. PICK accepted \in SUBSET page :
          /\ up' = [up EXCEPT ![at] = [u \in Users |->
                      IF u \in accepted /\ plan[u] # "keep" THEN plan[u] ELSE up[at][u]]]
          /\ ours' = [ours EXCEPT ![at] = ours[at] \cup accepted]
          /\ trusted' = trusted \cup {u \in Users : up'[Controller][u] = "super"}
    BY <1>4 DEF SendPage
  <2>2. up' \in [Services -> [Users -> Levels]]
    BY <1>4, <2>1 DEF SendPage, TypeOK, Levels
  <2>3. accepted \subseteq {u \in Users : gateway[u] # "none"}
    BY <1>4, <2>1 DEF SendPage, TypeOK, PageKnown
  <2>4. ours' \in [Services -> SUBSET {u \in Users : gateway[u] # "none"}]
    BY <2>1, <2>3 DEF TypeOK
  <2> QED
    BY <1>4, <2>1, <2>2, <2>4 DEF SendPage, TypeOK
<1>5. ASSUME ServiceDone \/ ServiceFails PROVE TypeOK'
  BY <1>5 DEF ServiceDone, ServiceFails, NextService, TypeOK, Services
<1>6. ASSUME TakeSnapshot \/ CollectPage PROVE TypeOK'
  BY <1>6 DEF TakeSnapshot, CollectPage, Superusers, TypeOK
<1>7. ASSUME PromoteMissing PROVE TypeOK'
  <2>1. gateway' \in [Users -> Levels] /\ \A u \in Users : gateway[u] # "none" => gateway'[u] # "none"
    BY <1>7 DEF PromoteMissing, TypeOK, Levels
  <2>2. ours' \in [Services -> SUBSET {u \in Users : gateway'[u] # "none"}]
    BY <1>7, <2>1 DEF PromoteMissing, TypeOK
  <2> QED
    BY <1>7, <2>1, <2>2 DEF PromoteMissing, TypeOK
<1>8. ASSUME DemotePage PROVE TypeOK'
  BY <1>8 DEF DemotePage, Extra, TypeOK
<1>9. ASSUME DemoteUser PROVE TypeOK'
  BY <1>9 DEF DemoteUser, TypeOK, Levels
<1>10. ASSUME DemoteDone PROVE TypeOK'
  BY <1>10 DEF DemoteDone, TypeOK, Services
<1>11. ASSUME CommandFails \/ Again PROVE TypeOK'
  BY <1>11 DEF CommandFails, Again, TypeOK
<1>12. ASSUME GatewayAdmin PROVE TypeOK'
  <2>1. gateway' \in [Users -> Levels] /\ \A u \in Users : gateway[u] # "none" => gateway'[u] # "none"
    BY <1>12 DEF GatewayAdmin, TypeOK, Levels
  <2>2. ours' \in [Services -> SUBSET {u \in Users : gateway'[u] # "none"}]
    BY <1>12, <2>1 DEF GatewayAdmin, TypeOK
  <2> QED
    BY <1>12, <2>1, <2>2 DEF GatewayAdmin, TypeOK
<1>13. ASSUME ServiceAdmin PROVE TypeOK'
  BY <1>13 DEF ServiceAdmin, TypeOK, Levels
<1>14. CASE UNCHANGED vars
  BY <1>14 DEF vars, TypeOK
<1> QED
  BY <1>1, <1>2, <1>3, <1>4, <1>5, <1>6, <1>7, <1>8, <1>9, <1>10, <1>11, <1>12, <1>13, <1>14 DEF Next, Command

LEMMA TrustStep == TypeOK /\ PageKnown /\ AllTrusted /\ [Next]_vars => PageKnown' /\ AllTrusted'
<1> SUFFICES ASSUME TypeOK, PageKnown, AllTrusted, [Next]_vars PROVE PageKnown' /\ AllTrusted'
  OBVIOUS
<1> USE DEF listing, paging
<1>1. ASSUME Start \/ ServiceDone \/ ServiceFails PROVE PageKnown' /\ AllTrusted'
  BY <1>1 DEF Start, ServiceDone, ServiceFails, NextService, PageKnown, AllTrusted
<1>2. ASSUME SyncFlags PROVE PageKnown' /\ AllTrusted'
  <2>1. PICK p \in SUBSET (Known(at) \ ours[at]) \ {{}} :
          /\ page' = p /\ gateway' = Promoted(p)
          /\ plan' = [u \in p |-> IF gateway[u] = "none" THEN "keep" ELSE gateway'[u]]
    BY <1>2 DEF SyncFlags
  <2>2. p \subseteq Users /\ \A u \in p : up[at][u] # "none"
    BY DEF Known
  <2>3. \A u \in Users : /\ gateway[u] # "none" => gateway'[u] # "none"
                         /\ gateway'[u] = "super" => gateway[u] = "super" \/ up[Controller][u] = "super"
    BY <2>1 DEF Promoted, TypeOK
  <2>4. UNCHANGED <<up, at, trusted, found>> /\ pc' = "create"
    BY <1>2 DEF SyncFlags
  <2> QED
    BY <2>1, <2>2, <2>3, <2>4 DEF PageKnown, AllTrusted
<1>3. ASSUME CreateUsers PROVE PageKnown' /\ AllTrusted'
  <2>1. \A u \in Users : gateway'[u] = IF u \in page /\ plan[u] = "keep" THEN NewLevel(u) ELSE gateway[u]
    BY <1>3 DEF CreateUsers
  <2>2. \A u \in page : NewLevel(u) # "none" /\ (NewLevel(u) = "super" => u \in trusted)
    BY <1>3 DEF CreateUsers, NewLevel, PageKnown, AllTrusted, TypeOK
  <2> QED
    BY <1>3, <2>1, <2>2 DEF CreateUsers, PageKnown, AllTrusted, TypeOK
<1>4. ASSUME SendPage PROVE PageKnown' /\ AllTrusted'
  BY <1>4 DEF SendPage, PageKnown, AllTrusted, TypeOK
<1>5. ASSUME TakeSnapshot \/ CollectPage PROVE PageKnown' /\ AllTrusted'
  BY <1>5 DEF TakeSnapshot, CollectPage, PageKnown, AllTrusted, TypeOK
<1>6. ASSUME PromoteMissing PROVE PageKnown' /\ AllTrusted'
  <2>1. \A u \in Users : gateway'[u] = "super" => gateway[u] = "super" \/ u \in found
    BY <1>6 DEF PromoteMissing
  <2> QED
    BY <1>6, <2>1 DEF PromoteMissing, PageKnown, AllTrusted
<1>7. ASSUME DemotePage \/ DemoteDone \/ CommandFails \/ Again PROVE PageKnown' /\ AllTrusted'
  BY <1>7 DEF DemotePage, DemoteDone, CommandFails, Again, PageKnown, AllTrusted
<1>8. ASSUME DemoteUser PROVE PageKnown' /\ AllTrusted'
  <2>1. \A u \in Users : up'[Controller][u] = "super" => up[Controller][u] = "super"
    BY <1>8 DEF DemoteUser, TypeOK, Services
  <2> QED
    BY <1>8, <2>1 DEF DemoteUser, PageKnown, AllTrusted
<1>9. ASSUME GatewayAdmin PROVE PageKnown' /\ AllTrusted'
  BY <1>9 DEF GatewayAdmin, PageKnown, AllTrusted, TypeOK
<1>10. ASSUME ServiceAdmin PROVE PageKnown' /\ AllTrusted'
  <2>1. \A s \in Services, u \in Users : up[s][u] # "none" => up'[s][u] # "none"
    BY <1>10 DEF ServiceAdmin, TypeOK
  <2>2. at \in Services /\ page \subseteq Users
    BY DEF TypeOK
  <2> QED
    BY <1>10, <2>1, <2>2 DEF ServiceAdmin, PageKnown, AllTrusted
<1>11. CASE UNCHANGED vars
  BY <1>11 DEF vars, PageKnown, AllTrusted
<1> QED
  BY <1>1, <1>2, <1>3, <1>4, <1>5, <1>6, <1>7, <1>8, <1>9, <1>10, <1>11 DEF Next, Command

LEMMA UndisturbedStep == SyncInv /\ [Next]_vars => Undisturbed'
<1> SUFFICES ASSUME SyncInv, [Next]_vars, changes' = 0 PROVE Undisturbed'
  BY DEF Undisturbed
<1> USE DEF listing, paging
<1>0. changes = 0
  BY DEF SyncInv, TypeOK, Next, Command, Start, SyncFlags, CreateUsers, SendPage, ServiceDone, ServiceFails,
         TakeSnapshot, CollectPage, PromoteMissing, DemotePage, DemoteUser, DemoteDone, CommandFails, Again,
         GatewayAdmin, ServiceAdmin, vars
<1>1. TypeOK /\ PageKnown /\ Undisturbed /\ Controller \in Services /\ HubEda \subseteq Services
  BY DEF SyncInv, Services
<1>2. ASSUME Start PROVE Undisturbed'
  BY <1>0, <1>1, <1>2 DEF Start, Undisturbed, Services
<1>3. ASSUME SyncFlags \/ CreateUsers PROVE Undisturbed'
  <2>1. pc = "users" \/ pc = "create"
    BY <1>3 DEF SyncFlags, CreateUsers
  <2>2. pc' \in {"create", "send"} /\ UNCHANGED <<up, ours, left, at, failedServices>>
    BY <1>3 DEF SyncFlags, CreateUsers
  <2> QED
    BY <1>0, <1>1, <2>1, <2>2 DEF Undisturbed, HandedOver
<1>4. ASSUME SendPage PROVE Undisturbed'
  <2>1. PICK accepted \in SUBSET page :
          /\ up' = [up EXCEPT ![at] = [u \in Users |->
                      IF u \in accepted /\ plan[u] # "keep" THEN plan[u] ELSE up[at][u]]]
          /\ ours' = [ours EXCEPT ![at] = ours[at] \cup accepted]
    BY <1>4 DEF SendPage
  <2>2. \A s \in Services \ {at} : up'[s] = up[s] /\ ours'[s] = ours[s]
    BY <1>1, <2>1 DEF TypeOK
  <2> QED
    BY <1>0, <1>1, <1>4, <2>2 DEF SendPage, Undisturbed, HandedOver
<1>5. ASSUME ServiceDone PROVE Undisturbed'
  <2>1. HandedOver(at) /\ UNCHANGED <<up, ours, failedServices>> /\ pc = "users"
    BY <1>5 DEF ServiceDone, Known, HandedOver
  <2>2. \A s \in Services : HandedOver(s) => HandedOver(s)'
    BY <2>1 DEF HandedOver
  <2>3. CASE left = {}
    BY <1>0, <1>1, <1>5, <2>1, <2>2, <2>3 DEF ServiceDone, NextService, Undisturbed
  <2>4. CASE left # {}
    BY <1>0, <1>1, <1>5, <2>1, <2>2, <2>4 DEF ServiceDone, NextService, Undisturbed
  <2> QED
    BY <2>3, <2>4
<1>6. ASSUME ServiceFails PROVE Undisturbed'
  BY <1>6 DEF ServiceFails, NextService, Undisturbed
<1>7. ASSUME TakeSnapshot PROVE Undisturbed'
  <2>1. \A s \in Services : HandedOver(s)'
    BY <1>0, <1>1, <1>7 DEF TakeSnapshot, Undisturbed, HandedOver
  <2> QED
    BY <1>7, <2>1 DEF TakeSnapshot, Undisturbed, Superusers
<1>8. ASSUME CollectPage PROVE Undisturbed'
  <2>1. /\ UNCHANGED <<up, ours, gateway, snapshot, pc>> /\ pc = "collect"
        /\ \A u \in found \cup unseen : up[Controller][u] = "super" => u \in found' \cup unseen'
    BY <1>8 DEF CollectPage
  <2> QED
    BY <1>0, <1>1, <2>1 DEF Undisturbed, HandedOver
<1>9. ASSUME PromoteMissing PROVE Undisturbed'
  <2>1. CASE \E u \in found \ snapshot : gateway[u] = "none"
    BY <1>9, <2>1 DEF PromoteMissing, Undisturbed
  <2>2. CASE \A u \in found \ snapshot : gateway[u] # "none"
    <3>1. /\ pc = "collect" /\ pc' = "demote" /\ left' = HubEda /\ UNCHANGED <<up, ours, at, snapshot>>
          /\ unseen = {}
      BY <1>9, <2>2 DEF PromoteMissing
    <3>2. \A u \in Users : /\ gateway[u] = "super" => gateway'[u] = "super"
                           /\ u \in found \ snapshot => gateway'[u] = "super"
      BY <1>9, <2>2 DEF PromoteMissing
    <3>3. \A u \in Users : up[Controller][u] = "super" => gateway'[u] = "super"
      BY <1>0, <1>1, <3>1, <3>2 DEF Undisturbed
    <3>4. \A u \in snapshot : gateway'[u] = "super"
      BY <1>0, <1>1, <3>1, <3>2 DEF Undisturbed, TypeOK
    <3> QED
      BY <1>0, <1>1, <3>1, <3>3, <3>4 DEF Undisturbed, HandedOver
  <2> QED
    BY <2>1, <2>2
<1>10. ASSUME DemotePage PROVE Undisturbed'
  <2>1. /\ UNCHANGED <<up, ours, gateway, snapshot, pc, left, at>> /\ pc = "demote" /\ page = {}
        /\ \A u \in unseen : up[at][u] = "super" => u \in snapshot \cup page' \cup unseen'
    BY <1>10 DEF DemotePage, Extra
  <2> QED
    BY <1>0, <1>1, <2>1 DEF Undisturbed, HandedOver, Covered
<1>11. ASSUME DemoteUser PROVE Undisturbed'
  <2>1. PICK v \in page :
          /\ up' = [up EXCEPT ![at][v] = IF up[at][v] = "none" THEN "none" ELSE "user"]
          /\ page' = page \ {v}
    BY <1>11 DEF DemoteUser
  <2>2. \A s \in Services, u \in Users :
          /\ up'[s][u] = "super" => up[s][u] = "super"
          /\ up'[s][u] # "none" => up[s][u] # "none"
    BY <1>1, <2>1 DEF TypeOK
  <2>3. up'[at][v] # "super"
    BY <1>1, <2>1 DEF TypeOK
  <2>4. UNCHANGED <<ours, gateway, snapshot, unseen, pc, left, at>> /\ pc = "demote"
    BY <1>11 DEF DemoteUser
  <2>5. at \in Services
    BY <1>1 DEF TypeOK
  <2> QED
    BY <1>0, <1>1, <2>1, <2>2, <2>3, <2>4, <2>5 DEF Undisturbed, HandedOver, Covered
<1>12. ASSUME DemoteDone PROVE Undisturbed'
  <2>1. /\ UNCHANGED <<up, ours, gateway, snapshot, page>> /\ pc = "demote" /\ page = {} /\ unseen = {}
        /\ at \in Services
    BY <1>1, <1>12 DEF DemoteDone, TypeOK
  <2>2. \A s \in HubEda \ left : Covered(s)
    BY <1>0, <1>1, <2>1 DEF Undisturbed, Covered
  <2>3. CASE left = {}
    BY <1>0, <1>1, <1>12, <2>1, <2>2, <2>3 DEF DemoteDone, Undisturbed, Covered
  <2>4. CASE left # {}
    <3>1. /\ pc' = "demote" /\ at' \in left /\ left' = left \ {at'} /\ unseen' = ours[at'] /\ left \subseteq HubEda
      BY <1>1, <1>12, <2>1, <2>4 DEF DemoteDone, TypeOK
    <3>2. \A u \in Users : up[at'][u] = "super" => u \in unseen'
      BY <1>0, <1>1, <2>1, <3>1 DEF Undisturbed, HandedOver
    <3>3. \A s \in HubEda \ (left' \cup {at'}) : Covered(s)'
      BY <2>1, <2>2, <3>1 DEF Covered
    <3> QED
      BY <1>0, <1>1, <2>1, <3>1, <3>2, <3>3 DEF Undisturbed, HandedOver
  <2> QED
    BY <2>3, <2>4
<1>13. ASSUME CommandFails \/ Again PROVE Undisturbed'
  BY <1>13 DEF CommandFails, Again, Undisturbed
<1>14. ~GatewayAdmin /\ ~ServiceAdmin
  BY <1>0 DEF GatewayAdmin, ServiceAdmin
<1>15. CASE UNCHANGED vars
  BY <1>0, <1>1, <1>15 DEF vars, Undisturbed, HandedOver, Covered
<1> QED
  BY <1>2, <1>3, <1>4, <1>5, <1>6, <1>7, <1>8, <1>9, <1>10, <1>11, <1>12, <1>13, <1>14, <1>15 DEF Next, Command

LEMMA SyncInvariant == Spec => []SyncInv
<1>1. SyncInv /\ [Next]_vars => SyncInv'
  BY SyncTypeStep, TrustStep, UndisturbedStep DEF SyncInv
<1> QED
  BY <1>1, SyncInit, PTL DEF Spec

(***************************************************************************)
(* Levels, pages and plans keep their types, and the gateway owns only     *)
(* users that it has (_migrate_service_data/superuser_sync.py), for any    *)
(* users and services and however long administrators interfere.           *)
(***************************************************************************)
THEOREM SyncTypeCorrect == Spec => []TypeOK
<1>1. SyncInv => TypeOK
  BY DEF SyncInv
<1> QED
  BY <1>1, SyncInvariant, PTL

(***************************************************************************)
(* A superuser of the gateway was one before, or was one of the            *)
(* controller: the flags of hub and EDA are never taken over               *)
(* (_sync_hub_eda_superuser), for any number of users and services.        *)
(***************************************************************************)
THEOREM NobodyEscalates == Spec => []NoEscalation
<1>1. SyncInv => NoEscalation
  BY DEF SyncInv, AllTrusted, NoEscalation, Superusers
<1> QED
  BY <1>1, SyncInvariant, PTL

(***************************************************************************)
(* When the command succeeds and nobody else changes a flag, no service is *)
(* left with a superuser that the gateway does not have                    *)
(* (_ensure_superuser_consistency), after any failed runs before.          *)
(***************************************************************************)
THEOREM SuperusersAreTheGateways == Spec => []NoSuperuserBeyondGateway
<1>1. SyncInv => NoSuperuserBeyondGateway
  BY DEF SyncInv, TypeOK, Undisturbed, Covered, NoSuperuserBeyondGateway, Superusers, Services
<1> QED
  BY <1>1, SyncInvariant, PTL

-----------------------------------------------------------------------------
(* The configuration cached for Envoy.                                     *)

(* What each response is built from, query by query. *)
LEMMA QueryFacts ==
  ASSUME NEW k \in {"cds", "lds", "sds"}
  PROVE  /\ DOMAIN Queries(k) = 1 .. Len(Queries(k)) /\ Len(Queries(k)) \in 1 .. 4
         /\ \A i \in DOMAIN Queries(k) : Queries(k)[i] \subseteq Tables
         /\ \A t : t \in Reads(k) <=> \E i \in DOMAIN Queries(k) : t \in Queries(k)[i]
<1>1. \A t : t \in Reads(k) <=> \E i \in DOMAIN Queries(k) : t \in Queries(k)[i]
  BY DEF Reads
<1>2. CASE k = "cds"
  <2>1. Queries(k) = <<{"route", "cluster"}, {"node", "type"}, {"preference"}>>
    BY <1>2 DEF Queries
  <2> QED
    BY <1>1, <2>1 DEF Tables
<1>3. CASE k = "lds"
  <2>1. Queries(k) = <<{"cluster", "type"}, {"route"}, {"port"}, {"preference"}>>
    BY <1>3 DEF Queries
  <2> QED
    BY <1>1, <2>1 DEF Tables
<1>4. CASE k = "sds"
  <2>1. Queries(k) = <<{"ca"}>>
    BY <1>4 DEF Queries
  <2> QED
    BY <1>1, <2>1 DEF Tables
<1> QED
  BY <1>2, <1>3, <1>4

(* The receivers are connected to every table with signals that the        *)
(* response is built from.                                                 *)
LEMMA SignalsCover ==
  ASSUME NEW k \in {"cds", "lds", "sds"}, NEW t \in Reads(k), Signals(t) # {}
  PROVE  k \in Signals(t)
<1>1. PICK i \in DOMAIN Queries(k) : t \in Queries(k)[i]
  BY QueryFacts
<1>2. CASE k = "cds"
  <2>1. Queries(k) = <<{"route", "cluster"}, {"node", "type"}, {"preference"}>>
    BY <1>2 DEF Queries
  <2>2. t \in {"route", "cluster", "node", "type", "preference"}
    BY <1>1, <2>1
  <2> QED
    BY <1>2, <2>2 DEF Signals
<1>3. CASE k = "lds"
  <2>1. Queries(k) = <<{"cluster", "type"}, {"route"}, {"port"}, {"preference"}>>
    BY <1>3 DEF Queries
  <2>2. t \in {"cluster", "type", "route", "port", "preference"}
    BY <1>1, <2>1
  <2> QED
    BY <1>3, <2>2 DEF Signals
<1>4. CASE k = "sds"
  <2>1. Queries(k) = <<{"ca"}>>
    BY <1>4 DEF Queries
  <2>2. t = "ca"
    BY <1>1, <2>1
  <2> QED
    BY <1>4, <2>2 DEF Signals
<1> QED
  BY <1>2, <1>3, <1>4

LEMMA Transactions == \A change \in Changes : change \subseteq Tables
  BY DEF Changes, Tables

(* A worker has read the tables of the queries behind it, as they were, or *)
(* it was overtaken.                                                       *)
JobSound ==
  \A w \in Workers : worker[w] # Idle =>
    /\ worker[w].step \in 1 .. Len(Queries(worker[w].key)) + 1
    /\ \A t \in Tables :
         t \in DOMAIN worker[w].got <=>
           \E i \in DOMAIN Queries(worker[w].key) : i < worker[w].step /\ t \in Queries(worker[w].key)[i]
    /\ ~overtaken[w] => \A t \in DOMAIN worker[w].got : worker[w].got[t] = db[t]

XdsInv == XdsTypeOK /\ JobSound /\ StaleOnlyIfOvertaken

LEMMA JobFields ==
  ASSUME XdsTypeOK, NEW w \in Workers, worker[w] # Idle
  PROVE  /\ worker[w].key \in Keys /\ worker[w].key \in {"cds", "lds", "sds"} /\ worker[w].step \in 1 .. 5
         /\ DOMAIN worker[w].got \in SUBSET Tables /\ worker[w].got \in [DOMAIN worker[w].got -> Nat]
         /\ worker[w] \in Jobs(DOMAIN worker[w].got)
<1>1. PICK read \in SUBSET Tables : worker[w] \in Jobs(read)
  BY DEF XdsTypeOK
<1>2. DOMAIN worker[w].got = read
  BY <1>1 DEF Jobs
<1> QED
  BY <1>1, <1>2, XdsAssumption DEF Jobs

LEMMA XdsInitial == XdsInit => XdsInv
<1> SUFFICES ASSUME XdsInit PROVE XdsInv
  OBVIOUS
<1>1. XdsTypeOK
  BY DEF XdsInit, XdsTypeOK
<1>2. JobSound /\ StaleOnlyIfOvertaken
  BY DEF XdsInit, JobSound, StaleOnlyIfOvertaken
<1> QED
  BY <1>1, <1>2 DEF XdsInv

(* A query adds its tables, as they are, to what has been read. *)
LEMMA QueryEffect ==
  ASSUME XdsTypeOK, JobSound, NEW w \in Workers, Query(w)
  PROVE  /\ worker[w] # Idle /\ worker'[w] # Idle
         /\ worker'[w].key = worker[w].key /\ worker'[w].step = worker[w].step + 1
         /\ worker[w].step \in DOMAIN Queries(worker[w].key)
         /\ DOMAIN worker'[w].got = DOMAIN worker[w].got \cup Queries(worker[w].key)[worker[w].step]
         /\ \A t \in DOMAIN worker[w].got : worker'[w].got[t] = worker[w].got[t]
         /\ \A t \in DOMAIN worker'[w].got \ DOMAIN worker[w].got : worker'[w].got[t] = db[t]
         /\ DOMAIN worker' = Workers /\ \A v \in Workers \ {w} : worker'[v] = worker[v]
         /\ \E read \in SUBSET Tables : worker'[w] \in Jobs(read)
         /\ UNCHANGED <<db, cache, pending, overtaken, excused>>
<1> DEFINE read == DOMAIN worker[w].got \cup Queries(worker[w].key)[worker[w].step]
           got == [t \in read |-> IF t \in DOMAIN worker[w].got THEN worker[w].got[t] ELSE db[t]]
<1>1. /\ worker[w] # Idle /\ worker[w].step \in DOMAIN Queries(worker[w].key)
      /\ worker' = [worker EXCEPT ![w].step = worker[w].step + 1, ![w].got = got]
      /\ UNCHANGED <<db, cache, pending, overtaken, excused>>
  BY DEF Query, XdsTypeOK
<1>2. read \in SUBSET Tables /\ worker[w].step + 1 \in 1 .. 5
  BY <1>1, JobFields, QueryFacts
<1>3. got \in [read -> Nat]
  BY <1>2, <1>1, JobFields DEF XdsTypeOK
<1>4. /\ DOMAIN got = read
      /\ \A t \in DOMAIN worker[w].got : got[t] = worker[w].got[t]
      /\ \A t \in read \ DOMAIN worker[w].got : got[t] = db[t]
  OBVIOUS
<1> HIDE DEF got, read
<1>5. worker'[w] \in Jobs(read) /\ worker'[w].key = worker[w].key /\ worker'[w].step = worker[w].step + 1
      /\ worker'[w].got = got
  BY <1>1, <1>2, <1>3, JobFields DEF XdsTypeOK, Jobs
<1>6. worker'[w] # Idle
  <2>1. worker'[w].key # "none"
    BY <1>1, <1>5, JobFields
  <2>2. Idle.key = "none"
    BY DEF Idle
  <2> QED
    BY <2>1, <2>2
<1>7. DOMAIN worker' = Workers /\ \A v \in Workers \ {w} : worker'[v] = worker[v]
  BY <1>1 DEF XdsTypeOK
<1> QED
  BY <1>1, <1>2, <1>4, <1>5, <1>6, <1>7 DEF read

(* A response is complete when it is sent. *)
LEMMA RespondEffect ==
  ASSUME XdsTypeOK, JobSound, NEW w \in Workers, Respond(w)
  PROVE  /\ worker[w] # Idle /\ worker[w].key \in Keys
         /\ worker[w].got \in Responses(worker[w].key)
         /\ DOMAIN cache' = Keys /\ DOMAIN worker' = Workers
         /\ \A k \in Keys \ {worker[w].key} : cache'[k] = cache[k] /\ excused'[k] = excused[k]
         /\ \/ cache'[worker[w].key] = worker[w].got /\ excused'[worker[w].key] = overtaken[w]
            \/ cache'[worker[w].key] = cache[worker[w].key] /\ excused'[worker[w].key] = excused[worker[w].key]
         /\ worker'[w] = Idle /\ \A v \in Workers \ {w} : worker'[v] = worker[v] /\ overtaken'[v] = overtaken[v]
         /\ overtaken' \in [Workers -> BOOLEAN] /\ excused' \in [Keys -> BOOLEAN]
         /\ UNCHANGED <<db, pending>>
<1> DEFINE k == worker[w].key
<1>1. worker[w] # Idle /\ worker[w].step \notin DOMAIN Queries(k)
  BY DEF Respond
<1>2. k \in Keys /\ k \in {"cds", "lds", "sds"} /\ worker[w].step \in 1 .. 5
  BY <1>1, JobFields
<1>3. worker[w].step = Len(Queries(k)) + 1
  BY <1>1, <1>2, QueryFacts DEF JobSound
<1>4. DOMAIN worker[w].got = Reads(k)
  <2>1. \A t \in Tables : t \in DOMAIN worker[w].got <=> t \in Reads(k)
    <3>1. \A t \in Tables :
            t \in DOMAIN worker[w].got <=>
              \E i \in DOMAIN Queries(k) : i < worker[w].step /\ t \in Queries(k)[i]
      BY <1>1 DEF JobSound
    <3>2. \A i \in DOMAIN Queries(k) : i < worker[w].step
      BY <1>2, <1>3, QueryFacts
    <3>3. \A t : t \in Reads(k) <=> \E i \in DOMAIN Queries(k) : t \in Queries(k)[i]
      BY <1>2, QueryFacts
    <3> QED
      BY <3>1, <3>2, <3>3
  <2>2. Reads(k) \subseteq Tables /\ DOMAIN worker[w].got \subseteq Tables
    BY <1>1, <1>2, QueryFacts, JobFields
  <2> QED
    BY <2>1, <2>2
<1>5. worker[w].got \in Responses(k)
  BY <1>1, <1>4, JobFields DEF Responses
<1>6. /\ cache' = [cache EXCEPT ![k] = IF Cacheable(k, worker[w].got) THEN worker[w].got ELSE cache[k]]
      /\ excused' = [excused EXCEPT ![k] = IF Cacheable(k, worker[w].got) THEN overtaken[w] ELSE excused[k]]
      /\ worker' = [worker EXCEPT ![w] = Idle]
      /\ overtaken' = [overtaken EXCEPT ![w] = FALSE]
      /\ UNCHANGED <<db, pending>>
  BY <1>2 DEF Respond, XdsTypeOK
<1> HIDE DEF k
<1>7. overtaken' \in [Workers -> BOOLEAN] /\ excused' \in [Keys -> BOOLEAN]
  BY <1>6 DEF XdsTypeOK
<1> QED
  BY <1>1, <1>2, <1>5, <1>6, <1>7 DEF XdsTypeOK, k

LEMMA XdsStep == XdsInv /\ [XdsNext]_xdsVars => XdsInv'
<1> SUFFICES ASSUME XdsInv, [XdsNext]_xdsVars PROVE XdsInv'
  OBVIOUS
<1> USE DEF XdsInv
<1>1. ASSUME NEW w \in Workers, NEW k \in Keys, CacheHit(w, k) PROVE XdsInv'
  BY <1>1 DEF CacheHit, XdsTypeOK, JobSound, StaleOnlyIfOvertaken
<1>2. ASSUME NEW w \in Workers, NEW k \in Keys, CacheMiss(w, k) PROVE XdsInv'
  <2>1. /\ worker' = [worker EXCEPT ![w] = [key |-> k, step |-> 1, got |-> NoResponse]]
        /\ overtaken' = [overtaken EXCEPT ![w] = FALSE]
        /\ UNCHANGED <<db, cache, pending, excused>>
    BY <1>2 DEF CacheMiss
  <2>2. NoResponse \in [{} -> Nat] /\ DOMAIN NoResponse = {}
    BY DEF NoResponse
  <2> HIDE DEF XdsInv
  <2>3. [key |-> k, step |-> 1, got |-> NoResponse] \in Jobs({})
    BY <2>2 DEF Jobs
  <2>4. /\ DOMAIN worker' = Workers /\ worker'[w] = [key |-> k, step |-> 1, got |-> NoResponse]
        /\ \A v \in Workers \ {w} : worker'[v] = worker[v] /\ overtaken'[v] = overtaken[v]
    BY <2>1 DEF XdsInv, XdsTypeOK
  <2>5. overtaken' \in [Workers -> BOOLEAN]
    BY <2>1 DEF XdsInv, XdsTypeOK
  <2>6. XdsTypeOK'
    BY <2>1, <2>3, <2>4, <2>5 DEF XdsInv, XdsTypeOK
  <2>7. worker'[w].key = k /\ worker'[w].step = 1 /\ DOMAIN worker'[w].got = {}
    BY <2>2, <2>4
  <2>8. k \in {"cds", "lds", "sds"}
    BY XdsAssumption
  <2>9. JobSound'
    <3> SUFFICES ASSUME NEW v \in Workers, worker'[v] # Idle
                 PROVE  /\ worker'[v].step \in 1 .. Len(Queries(worker'[v].key)) + 1
                        /\ \A t \in Tables :
                             t \in DOMAIN worker'[v].got <=>
                               \E i \in DOMAIN Queries(worker'[v].key) :
                                 i < worker'[v].step /\ t \in Queries(worker'[v].key)[i]
                        /\ ~overtaken'[v] => \A t \in DOMAIN worker'[v].got : worker'[v].got[t] = db'[t]
      BY DEF JobSound
    <3>1. CASE v = w
      BY <3>1, <2>7, <2>8, QueryFacts
    <3>2. CASE v # w
      BY <3>2, <2>1, <2>4 DEF XdsInv, JobSound
    <3> QED
      BY <3>1, <3>2
  <2>10. StaleOnlyIfOvertaken'
    BY <2>1 DEF XdsInv, StaleOnlyIfOvertaken
  <2> QED
    BY <2>6, <2>9, <2>10 DEF XdsInv
<1>3. ASSUME NEW w \in Workers, Query(w) PROVE XdsInv'
  <2>1. XdsTypeOK /\ JobSound /\ StaleOnlyIfOvertaken
    OBVIOUS
  <2> HIDE DEF XdsInv
  <2>2. /\ worker[w] # Idle /\ worker'[w] # Idle
        /\ worker'[w].key = worker[w].key /\ worker'[w].step = worker[w].step + 1
        /\ worker[w].step \in DOMAIN Queries(worker[w].key)
        /\ DOMAIN worker'[w].got = DOMAIN worker[w].got \cup Queries(worker[w].key)[worker[w].step]
        /\ \A t \in DOMAIN worker[w].got : worker'[w].got[t] = worker[w].got[t]
        /\ \A t \in DOMAIN worker'[w].got \ DOMAIN worker[w].got : worker'[w].got[t] = db[t]
    BY <1>3, <2>1, QueryEffect
  <2>3. /\ DOMAIN worker' = Workers /\ \A v \in Workers \ {w} : worker'[v] = worker[v]
        /\ \E read \in SUBSET Tables : worker'[w] \in Jobs(read)
        /\ UNCHANGED <<db, cache, pending, overtaken, excused>>
    BY <1>3, <2>1, QueryEffect
  <2>4. XdsTypeOK'
    BY <2>1, <2>3 DEF XdsTypeOK
  <2>5. /\ worker[w].key \in {"cds", "lds", "sds"}
        /\ DOMAIN Queries(worker[w].key) = 1 .. Len(Queries(worker[w].key))
        /\ Len(Queries(worker[w].key)) \in 1 .. 4
    BY <2>1, <2>2, JobFields, QueryFacts
  <2>6. /\ \A t \in Tables :
             t \in DOMAIN worker[w].got <=>
               \E i \in DOMAIN Queries(worker[w].key) : i < worker[w].step /\ t \in Queries(worker[w].key)[i]
        /\ ~overtaken[w] => \A t \in DOMAIN worker[w].got : worker[w].got[t] = db[t]
    BY <2>1, <2>2 DEF JobSound
  <2>7. worker'[w].step \in 1 .. Len(Queries(worker'[w].key)) + 1
    BY <2>2, <2>5
  <2>8. \A i \in DOMAIN Queries(worker[w].key) :
          i < worker[w].step + 1 <=> i < worker[w].step \/ i = worker[w].step
    BY <2>2, <2>5
  <2>9. \A t \in Tables :
          t \in DOMAIN worker'[w].got <=>
            \E i \in DOMAIN Queries(worker'[w].key) : i < worker'[w].step /\ t \in Queries(worker'[w].key)[i]
    BY <2>2, <2>6, <2>8, Zenon
  <2>10. ~overtaken'[w] => \A t \in DOMAIN worker'[w].got : worker'[w].got[t] = db'[t]
    BY <2>2, <2>3, <2>6
  <2>11. JobSound'
    BY <2>1, <2>3, <2>7, <2>9, <2>10 DEF JobSound
  <2>12. StaleOnlyIfOvertaken'
    BY <2>1, <2>3 DEF StaleOnlyIfOvertaken
  <2> QED
    BY <2>4, <2>11, <2>12 DEF XdsInv
<1>4. ASSUME NEW w \in Workers, Respond(w) PROVE XdsInv'
  <2> DEFINE key == worker[w].key
  <2>1. XdsTypeOK /\ JobSound /\ StaleOnlyIfOvertaken
    OBVIOUS
  <2> HIDE DEF XdsInv
  <2>2. /\ worker[w] # Idle /\ key \in Keys
        /\ worker[w].got \in Responses(key)
        /\ DOMAIN cache' = Keys /\ DOMAIN worker' = Workers
        /\ \A k \in Keys \ {key} : cache'[k] = cache[k] /\ excused'[k] = excused[k]
        /\ \/ cache'[key] = worker[w].got /\ excused'[key] = overtaken[w]
           \/ cache'[key] = cache[key] /\ excused'[key] = excused[key]
        /\ worker'[w] = Idle
        /\ \A v \in Workers \ {w} : worker'[v] = worker[v] /\ overtaken'[v] = overtaken[v]
        /\ overtaken' \in [Workers -> BOOLEAN] /\ excused' \in [Keys -> BOOLEAN]
        /\ UNCHANGED <<db, pending>>
    BY <1>4, <2>1, RespondEffect
  <2>3. worker[w].got \in [Reads(key) -> Nat] /\ (~overtaken[w] => \A t \in Reads(key) : worker[w].got[t] = db[t])
    BY <2>1, <2>2 DEF JobSound, Responses
  <2> HIDE DEF key
  <2>4. XdsTypeOK'
    BY <2>1, <2>2 DEF XdsTypeOK
  <2>5. JobSound'
    BY <2>1, <2>2 DEF JobSound
  <2>6. StaleOnlyIfOvertaken'
    <3> SUFFICES ASSUME NEW k \in Keys, cache'[k] # NoResponse, NEW t \in Reads(k) \cap Signalled,
                        cache'[k][t] < db'[t], ~excused'[k]
                 PROVE  \E p \in Writers : k \in pending'[p]
      BY DEF StaleOnlyIfOvertaken
    <3>1. CASE cache'[k] = cache[k] /\ excused'[k] = excused[k]
      BY <3>1, <2>1, <2>2 DEF StaleOnlyIfOvertaken
    <3>2. CASE k = key /\ cache'[key] = worker[w].got /\ excused'[key] = overtaken[w]
      <4>1. worker[w].got[t] = db[t] /\ worker[w].got[t] \in Nat
        BY <3>2, <2>3
      <4> QED
        BY <3>2, <4>1, <2>2
    <3> QED
      BY <3>1, <3>2, <2>2
  <2> QED
    BY <2>4, <2>5, <2>6 DEF XdsInv
<1>5. ASSUME NEW p \in Writers, Commit(p) PROVE XdsInv'
  <2>1. XdsTypeOK /\ JobSound /\ StaleOnlyIfOvertaken
    OBVIOUS
  <2> HIDE DEF XdsInv
  <2>2. PICK change \in Changes :
          /\ db' = [t \in Tables |-> IF t \in change THEN db[t] + 1 ELSE db[t]]
          /\ pending' = [pending EXCEPT ![p] = Keys \cap UNION {Signals(t) : t \in change}]
          /\ overtaken' = [w \in Workers |->
               overtaken[w] \/ (worker[w] # Idle /\ Reads(worker[w].key) \cap change # {})]
    BY <1>5 DEF Commit
  <2>3. pending[p] = {} /\ UNCHANGED <<cache, worker, excused>>
    BY <1>5 DEF Commit
  <2>4. change \subseteq Tables
    BY Transactions
  <2>5. overtaken' \in [Workers -> BOOLEAN]
    BY <2>2
  <2>6. db' \in [Tables -> Nat] /\ pending' \in [Writers -> SUBSET Keys]
    BY <2>1, <2>2 DEF XdsTypeOK
  <2>7. XdsTypeOK'
    BY <2>1, <2>3, <2>5, <2>6 DEF XdsTypeOK
  <2>8. JobSound'
    <3> SUFFICES ASSUME NEW w \in Workers, worker[w] # Idle, ~overtaken'[w], NEW t \in DOMAIN worker[w].got
                 PROVE  worker[w].got[t] = db'[t]
      BY <2>1, <2>3 DEF JobSound
    <3>1. ~overtaken[w] /\ Reads(worker[w].key) \cap change = {}
      BY <2>2
    <3>2. t \in Tables
      BY <2>1, JobFields
    <3>3. worker[w].got[t] = db[t] /\ \E i \in DOMAIN Queries(worker[w].key) : t \in Queries(worker[w].key)[i]
      BY <2>1, <3>1, <3>2 DEF JobSound
    <3>4. t \in Reads(worker[w].key)
      BY <2>1, <3>3, JobFields, QueryFacts
    <3> QED
      BY <2>2, <3>1, <3>2, <3>3, <3>4
  <2>9. StaleOnlyIfOvertaken'
    <3> SUFFICES ASSUME NEW k \in Keys, cache[k] # NoResponse, NEW t \in Reads(k) \cap Signalled,
                        cache[k][t] < db'[t], ~excused[k]
                 PROVE  \E q \in Writers : k \in pending'[q]
      BY <2>3 DEF StaleOnlyIfOvertaken
    <3>1. t \in Tables /\ Signals(t) # {}
      BY DEF Signalled
    <3>2. CASE t \in change
      <4>1. k \in Signals(t)
        BY <3>1, SignalsCover, XdsAssumption
      <4>2. pending'[p] = Keys \cap UNION {Signals(x) : x \in change}
        BY <2>1, <2>2 DEF XdsTypeOK
      <4> QED
        BY <3>2, <4>1, <4>2
    <3>3. CASE t \notin change
      <4>1. db'[t] = db[t]
        BY <2>2, <3>1, <3>3
      <4>2. PICK q \in Writers : k \in pending[q]
        BY <2>1, <4>1 DEF StaleOnlyIfOvertaken
      <4> QED
        BY <2>1, <2>2, <2>3, <4>2 DEF XdsTypeOK
    <3> QED
      BY <3>2, <3>3
  <2> QED
    BY <2>7, <2>8, <2>9 DEF XdsInv
<1>6. ASSUME NEW p \in Writers, Invalidate(p) PROVE XdsInv'
  <2>1. XdsTypeOK /\ JobSound /\ StaleOnlyIfOvertaken
    OBVIOUS
  <2> HIDE DEF XdsInv
  <2>2. PICK k \in pending[p] :
          /\ cache' = [cache EXCEPT ![k] = NoResponse]
          /\ excused' = [excused EXCEPT ![k] = FALSE]
          /\ pending' = [pending EXCEPT ![p] = @ \ {k}]
    BY <1>6 DEF Invalidate
  <2>3. UNCHANGED <<db, worker, overtaken>>
    BY <1>6 DEF Invalidate
  <2>4. excused' \in [Keys -> BOOLEAN]
    BY <2>1, <2>2 DEF XdsTypeOK
  <2>5. XdsTypeOK'
    BY <2>1, <2>2, <2>3, <2>4 DEF XdsTypeOK
  <2>6. JobSound'
    BY <2>1, <2>3 DEF JobSound
  <2>7. StaleOnlyIfOvertaken'
    <3> SUFFICES ASSUME NEW j \in Keys, cache'[j] # NoResponse, NEW t \in Reads(j) \cap Signalled,
                        cache'[j][t] < db'[t], ~excused'[j]
                 PROVE  \E q \in Writers : j \in pending'[q]
      BY DEF StaleOnlyIfOvertaken
    <3>1. j # k /\ cache'[j] = cache[j] /\ excused'[j] = excused[j]
      BY <2>1, <2>2 DEF XdsTypeOK
    <3>2. PICK q \in Writers : j \in pending[q]
      BY <2>1, <2>3, <3>1 DEF StaleOnlyIfOvertaken
    <3> QED
      BY <2>1, <2>2, <3>1, <3>2 DEF XdsTypeOK
  <2> QED
    BY <2>5, <2>6, <2>7 DEF XdsInv
<1>7. ASSUME NEW p \in Writers, WriterDies(p) PROVE XdsInv'
  <2>1. XdsTypeOK /\ JobSound /\ StaleOnlyIfOvertaken
    OBVIOUS
  <2> HIDE DEF XdsInv
  <2>2. /\ excused' = [k \in Keys |-> excused[k] \/ k \in pending[p]]
        /\ pending' = [pending EXCEPT ![p] = {}]
        /\ UNCHANGED <<db, cache, worker, overtaken>>
    BY <1>7 DEF WriterDies
  <2>3. excused' \in [Keys -> BOOLEAN]
    BY <2>2
  <2>4. XdsTypeOK' /\ JobSound'
    BY <2>1, <2>2, <2>3 DEF XdsTypeOK, JobSound
  <2>5. StaleOnlyIfOvertaken'
    BY <2>1, <2>2 DEF XdsTypeOK, StaleOnlyIfOvertaken
  <2> QED
    BY <2>4, <2>5 DEF XdsInv
<1>8. ASSUME NEW k \in Keys, Expire(k) PROVE XdsInv'
  <2>1. XdsTypeOK /\ JobSound /\ StaleOnlyIfOvertaken
    OBVIOUS
  <2> HIDE DEF XdsInv
  <2>2. /\ cache' = [cache EXCEPT ![k] = NoResponse]
        /\ excused' = [excused EXCEPT ![k] = FALSE]
        /\ UNCHANGED <<db, worker, pending, overtaken>>
    BY <1>8 DEF Expire
  <2>3. excused' \in [Keys -> BOOLEAN]
    BY <2>1, <2>2 DEF XdsTypeOK
  <2>4. XdsTypeOK' /\ JobSound'
    BY <2>1, <2>2, <2>3 DEF XdsTypeOK, JobSound
  <2>5. StaleOnlyIfOvertaken'
    BY <2>1, <2>2 DEF XdsTypeOK, StaleOnlyIfOvertaken
  <2> QED
    BY <2>4, <2>5 DEF XdsInv
<1>9. ASSUME ServerStarts PROVE XdsInv'
  <2>1. /\ cache' = [k \in Keys |-> NoResponse]
        /\ excused' = [k \in Keys |-> FALSE]
        /\ UNCHANGED <<db, worker, pending, overtaken>>
    BY <1>9 DEF ServerStarts
  <2>2. excused' \in [Keys -> BOOLEAN]
    BY <2>1
  <2> QED
    BY <2>1, <2>2 DEF XdsTypeOK, JobSound, StaleOnlyIfOvertaken
<1>10. ASSUME UNCHANGED xdsVars PROVE XdsInv'
  BY <1>10 DEF xdsVars, XdsTypeOK, JobSound, StaleOnlyIfOvertaken
<1> QED
  BY <1>1, <1>2, <1>3, <1>4, <1>5, <1>6, <1>7, <1>8, <1>9, <1>10 DEF XdsNext

LEMMA XdsInvariant == XdsSpec => []XdsInv
  BY XdsInitial, XdsStep, PTL DEF XdsSpec

(***************************************************************************)
(* Types of the cache and of the workers; a cached response holds every    *)
(* table its view reads (rest_control_plane.py).                           *)
(***************************************************************************)
THEOREM XdsTypeCorrect == XdsSpec => []XdsTypeOK
<1>1. XdsInv => XdsTypeOK
  BY DEF XdsInv
<1> QED
  BY <1>1, XdsInvariant, PTL

(***************************************************************************)
(* The receivers of signals/xds_cache.py cover what the views read, for    *)
(* any number of web workers, writers and transactions: a cached response  *)
(* is out of date in a signalled table only while an invalidation is still *)
(* to come, if its worker was overtaken, or if the invalidation died with  *)
(* its writer.                                                             *)
(***************************************************************************)
THEOREM StaleOnlyWhenOvertaken == XdsSpec => []StaleOnlyIfOvertaken
<1>1. XdsInv => StaleOnlyIfOvertaken
  BY DEF XdsInv
<1> QED
  BY <1>1, XdsInvariant, PTL
==============================================================================
