---------------------------- MODULE ServiceTokens ----------------------------
(***************************************************************************)
(* Validation of a service's token (utils/service_token.py): the cluster   *)
(* is looked up by the issuer, the signature is tried with the cluster's   *)
(* active keys.  An unknown issuer starts the discovery of service ids     *)
(* (utils/service_id_sync.py): clusters without an id are asked for        *)
(* theirs, at most once per issuer and cooldown.                           *)
(*                                                                         *)
(* Threads of one process share the cooldown table, which no lock guards.  *)
(* A thread reads the clock once and uses that time for the whole check.   *)
(* Meanwhile migrate_service_data and requests that change a cluster write *)
(* rows they loaded earlier back as a whole, service_id included.          *)
(***************************************************************************)
EXTENDS ServiceKeys, Sequences

CONSTANTS
  Threads,
  Savers,         \* commands and requests that change a cluster
  ProbeOrder,     \* the clusters of syncable types with a route, by primary key
  Ids,            \* issuers: canonical UUIDs
  NoId,
  Reports,        \* cluster -> ids its metadata endpoint may report
  InitialIds,     \* cluster -> service_id at the start, or NoId
  Cooldown,       \* _POPULATE_COOLDOWN_SECONDS
  MaxEntries,     \* _POPULATE_MAX_COOLDOWN_ENTRIES
  MaxProbes,      \* _MAX_CLUSTERS_TO_PROBE
  MaxTime         \* bound: the clock

ASSUME ServiceTokensAssumption ==
  /\ ProbeOrder \in Seq(Clusters) /\ NoId \notin Ids
  /\ Reports \in [Clusters -> SUBSET Ids]
  /\ InitialIds \in [Clusters -> Ids \cup {NoId}]
  /\ \A c, d \in Clusters :  \* service_id is unique
       InitialIds[c] = InitialIds[d] /\ InitialIds[c] # NoId => c = d
  /\ IsFiniteSet(Ids) /\ IsFiniteSet(Threads) /\ Threads # {}
  /\ Cooldown \in Nat /\ MaxEntries \in Nat /\ MaxProbes \in Nat
  /\ MaxTime \in Nat /\ Cooldown <= MaxTime

VARIABLES
  sid,      \* cluster -> service_id
  table,    \* issuer -> the time it was tried, _populate_cooldown
  uptime,   \* time.monotonic()
  thread,   \* thread -> its token and how far its validation is
  saver,    \* saver -> the row it loaded
  had       \* the ids each cluster has had, for the properties only

tokenVars == <<sid, table, uptime, thread, saver, had>>
allVars == <<keyVars, tokenVars>>

Resting == [pc |-> "idle"]
Go(t, pc) == thread' = [thread EXCEPT ![t].pc = pc]
Reject(t, why) == thread' = [thread EXCEPT ![t] = [pc |-> "rejected", why |-> why]]

\* A cluster's id is written to its row.
SetId(c, i) ==
  /\ sid' = [sid EXCEPT ![c] = i]
  /\ had' = [had EXCEPT ![c] = @ \cup {i}]

TokensInit ==
  /\ KeysInit
  /\ sid = InitialIds
  /\ table = [i \in {} |-> 0]
  /\ uptime \in 0..Cooldown
  /\ thread = [t \in Threads |-> Resting]
  /\ saver = [s \in Savers |-> Resting]
  /\ had = [c \in Clusters |-> {InitialIds[c]}]

-----------------------------------------------------------------------------
Tick ==
  /\ uptime < MaxTime
  /\ uptime' = uptime + 1
  /\ UNCHANGED <<keyVars, sid, table, thread, saver, had>>

(* A cluster is loaded to be changed. *)
LoadCluster(s, c) ==
  /\ saver[s] = Resting
  /\ saver' = [saver EXCEPT ![s] = [pc |-> "loaded", cluster |-> c, id |-> sid[c]]]
  /\ UNCHANGED <<keyVars, sid, table, uptime, thread, had>>

(* The row is written as a whole: by a request with the id as it was       *)
(* loaded, by migrate_service_data with the one that the cluster reports.  *)
(* The unique constraint may refuse it.                                    *)
SaveCluster(s) ==
  /\ saver[s] # Resting
  /\ LET c == saver[s].cluster IN
     \E i \in {saver[s].id} \cup Reports[c] :
       IF i # NoId /\ \E d \in Clusters \ {c} : sid[d] = i
         THEN UNCHANGED <<sid, had>>
         ELSE SetId(c, i)
  /\ saver' = [saver EXCEPT ![s] = Resting]
  /\ UNCHANGED <<keyVars, table, uptime, thread>>

(* A token of a valid form arrives. *)
Receive(t) ==
  /\ thread[t].pc \in {"idle", "accepted", "rejected"} /\ created > 0
  /\ \E i \in Ids : thread' = [thread EXCEPT ![t] = [pc |-> "lookup", iss |-> i]]
  /\ UNCHANGED <<keyVars, sid, table, uptime, saver, had>>

(* The issuer's cluster; without one, the cooldown is checked, as of now.  *)
LookupCluster(t) ==
  /\ thread[t].pc = "lookup"
  /\ LET owners == {c \in Clusters : sid[c] = thread[t].iss} IN
     \/ \E c \in owners : thread' = [thread EXCEPT ![t] =
          [pc |-> "verify", iss |-> @.iss, cluster |-> c, probes |-> {}]]
     \/ owners = {} /\ thread' = [thread EXCEPT ![t] =
          [pc |-> "room", iss |-> @.iss, now |-> uptime, expired |-> {}]]
  /\ UNCHANGED <<keyVars, sid, table, uptime, saver, had>>

(* A faulty variant that lets the table be one entry too full. *)
CheckRoomOffByOne(t) ==
  /\ thread[t].pc = "room"
  /\ thread' = [thread EXCEPT ![t] =
       IF Cardinality(DOMAIN table) <= MaxEntries
         THEN [@ EXCEPT !.pc = "recent"]
         ELSE [@ EXCEPT !.pc = "prune",
                 !.expired = {i \in DOMAIN table : table[i] + Cooldown < thread[t].now}]]
  /\ UNCHANGED <<keyVars, sid, table, uptime, saver, had>>

(* Is the table full?  If so, the expired entries are listed. *)
CheckRoom(t) ==
  /\ thread[t].pc = "room"
  /\ thread' = [thread EXCEPT ![t] =
       IF Cardinality(DOMAIN table) < MaxEntries
         THEN [@ EXCEPT !.pc = "recent"]
         ELSE [@ EXCEPT !.pc = "prune",
                 !.expired = {i \in DOMAIN table : table[i] + Cooldown < thread[t].now}]]
  /\ UNCHANGED <<keyVars, sid, table, uptime, saver, had>>

(* One `del`.  An entry that another thread has deleted raises KeyError,   *)
(* which nothing catches before the authentication class.                  *)
Prune(t) ==
  /\ thread[t].pc = "prune"
  /\ \E i \in thread[t].expired :
       IF i \in DOMAIN table
         THEN /\ table' = [j \in DOMAIN table \ {i} |-> table[j]]
              /\ thread' = [thread EXCEPT ![t].expired = @ \ {i}]
         ELSE Reject(t, "raised") /\ UNCHANGED table
  /\ UNCHANGED <<keyVars, sid, uptime, saver, had>>

(* All are deleted; is there room now? *)
PruneDone(t) ==
  /\ thread[t].pc = "prune" /\ thread[t].expired = {}
  /\ IF Cardinality(DOMAIN table) >= MaxEntries THEN Reject(t, "full")
                                                ELSE Go(t, "recent")
  /\ UNCHANGED <<keyVars, sid, table, uptime, saver, had>>

(* When the issuer was tried; one without an entry, at time zero. *)
TriedAt(i) == IF i \in DOMAIN table THEN table[i] ELSE 0

(* Another thread's entry may be later than the time this thread has read. *)
CheckRecent(t) ==
  /\ thread[t].pc = "recent"
  /\ IF thread[t].now - TriedAt(thread[t].iss) < Cooldown THEN Reject(t, "recent")
                                                          ELSE Go(t, "enter")
  /\ UNCHANGED <<keyVars, sid, table, uptime, saver, had>>

(* The positions of the clusters without an id, cut off at the limit. *)
ToProbe ==
  LET null == {p \in DOMAIN ProbeOrder : sid[ProbeOrder[p]] = NoId}
  IN  {p \in null : Cardinality({q \in null : q <= p}) <= MaxProbes}

(* The entry is made, with the time that was read at the beginning; the    *)
(* clusters without an id are read.                                        *)
Enter(t) ==
  /\ thread[t].pc = "enter"
  /\ table' = [i \in DOMAIN table \cup {thread[t].iss} |->
                 IF i = thread[t].iss THEN thread[t].now ELSE table[i]]
  /\ thread' = [thread EXCEPT ![t] =
       [pc |-> "probe", iss |-> @.iss, cluster |-> NoId, probes |-> ToProbe]]
  /\ UNCHANGED <<keyVars, sid, uptime, saver, had>>

(* The next cluster's metadata endpoint answers with the wanted id. *)
ProbeMatches(t) ==
  /\ thread[t].pc = "probe"
  /\ \E p \in thread[t].probes :
       /\ \A q \in thread[t].probes : p <= q
       /\ thread[t].iss \in Reports[ProbeOrder[p]]
       /\ thread' = [thread EXCEPT ![t].pc = "store", ![t].cluster = ProbeOrder[p],
                                   ![t].probes = @ \ {p}]
  /\ UNCHANGED <<keyVars, sid, table, uptime, saver, had>>

(* With another one, with garbage, with an error or not at all. *)
ProbeFails(t) ==
  /\ thread[t].pc = "probe"
  /\ \E p \in thread[t].probes :
       /\ \A q \in thread[t].probes : p <= q
       /\ thread' = [thread EXCEPT ![t].probes = @ \ {p}]
  /\ UNCHANGED <<keyVars, sid, table, uptime, saver, had>>

ProbesExhausted(t) ==
  /\ thread[t].pc = "probe" /\ thread[t].probes = {}
  /\ Reject(t, "unknown")
  /\ UNCHANGED <<keyVars, sid, table, uptime, saver, had>>

(* A faulty variant that takes a row that is no longer null for its own. *)
StoreIdUnconfirmed(t) ==
  LET c == thread[t].cluster IN
  /\ thread[t].pc = "store"
  /\ \/ /\ sid[c] = NoId /\ \A d \in Clusters : sid[d] # thread[t].iss
        /\ SetId(c, thread[t].iss) /\ Go(t, "verify")
     \/ sid[c] # NoId /\ Go(t, "verify") /\ UNCHANGED <<sid, had>>
  /\ UNCHANGED <<keyVars, table, uptime, saver>>

(* UPDATE ... WHERE service_id IS NULL, which a cluster with the same id   *)
(* makes fail, then a look whether the row has the id now.                 *)
StoreId(t) ==
  LET c == thread[t].cluster
      i == thread[t].iss
  IN
  /\ thread[t].pc = "store"
  /\ \/ /\ sid[c] = NoId /\ \A d \in Clusters : sid[d] # i
        /\ SetId(c, i) /\ Go(t, "verify")
     \/ /\ sid[c] = NoId /\ \E d \in Clusters : sid[d] = i
        /\ Reject(t, "unknown") /\ UNCHANGED <<sid, had>>
     \/ /\ sid[c] # NoId
        /\ Go(t, IF sid[c] = i THEN "verify" ELSE "probe") /\ UNCHANGED <<sid, had>>
  /\ UNCHANGED <<keyVars, table, uptime, saver>>

(* _verify_token_signature: the key that signed the token, of any cluster  *)
(* and possibly retired or deleted, is an active one of this cluster; then *)
(* the token has the required type and its subject, if any, exists.        *)
Verify(t) ==
  /\ thread[t].pc = "verify"
  /\ \E signer \in 1..created :
       \/ signer \in ActiveKeys(thread[t].cluster) /\ Go(t, "accepted")
       \/ signer \in ActiveKeys(thread[t].cluster) /\ Reject(t, "claims")
       \/ signer \notin ActiveKeys(thread[t].cluster) /\ Reject(t, "signature")
  /\ UNCHANGED <<keyVars, sid, table, uptime, saver, had>>

Validate(t) ==
  \/ LookupCluster(t) \/ CheckRoom(t) \/ Prune(t) \/ PruneDone(t) \/ CheckRecent(t)
  \/ Enter(t) \/ ProbeMatches(t) \/ ProbeFails(t) \/ ProbesExhausted(t)
  \/ StoreId(t) \/ Verify(t)

ClustersNext ==
  \/ Tick
  \/ \E s \in Savers : SaveCluster(s) \/ \E c \in Clusters : LoadCluster(s, c)
  \/ \E t \in Threads : Receive(t) \/ Validate(t)

TokensNext == (KeysNext /\ UNCHANGED tokenVars) \/ ClustersNext

TokensSpec == TokensInit /\ [][TokensNext]_allVars

-----------------------------------------------------------------------------
(* The shapes of a thread's record. *)
ThreadStates ==
  {Resting} \cup [pc : {"rejected"}, why : {"raised", "full", "recent", "unknown", "claims", "signature"}]
  \cup [pc : {"lookup"}, iss : Ids]
  \cup [pc : {"room", "prune", "recent", "enter"}, iss : Ids, now : 0..MaxTime, expired : SUBSET Ids]
  \cup [pc : {"probe", "store", "verify", "accepted"}, iss : Ids, cluster : Clusters \cup {NoId},
        probes : SUBSET DOMAIN ProbeOrder]

(* Types of the tokens' and the keys' state. *)
TokensTypeOK ==
  /\ KeysTypeOK
  /\ sid \in [Clusters -> Ids \cup {NoId}]
  /\ DOMAIN table \subseteq Ids /\ \A i \in DOMAIN table : table[i] \in 0..MaxTime
  /\ uptime \in 0..MaxTime
  /\ thread \in [Threads -> ThreadStates]
  /\ saver \in [Savers -> {Resting} \cup [pc : {"loaded"}, cluster : Clusters, id : Ids \cup {NoId}]]
  /\ had \in [Clusters -> SUBSET (Ids \cup {NoId})]

(***************************************************************************)
(* A token is accepted only on behalf of a cluster that has had the        *)
(* issuer's id in the database, also when this thread found the cluster    *)
(* without an id and another thread gave it one meanwhile.  A cluster is   *)
(* only ever given an id it reported itself, and no two have the same, not *)
(* even when a row is written back as it was loaded (populate_service_id). *)
(***************************************************************************)
AcceptedForIssuer ==
  /\ \A t \in Threads : thread[t].pc = "accepted" => thread[t].iss \in had[thread[t].cluster]
  /\ \A c \in Clusters : had[c] \subseteq Reports[c] \cup {InitialIds[c], NoId}
  /\ \A c, d \in Clusters : sid[c] = sid[d] /\ sid[c] # NoId => c = d

(***************************************************************************)
(* "the dict cannot grow without bound" (_check_and_set_cooldown, lines    *)
(* 50-53), although its length is looked at in one step and the entry made *)
(* in a later one, among threads that prune and enter: it exceeds the      *)
(* limit by no more than the other threads that found room at the same     *)
(* time, each by one entry.                                                *)
(***************************************************************************)
TableBounded == Cardinality(DOMAIN table) < MaxEntries + Cardinality(Threads)
=============================================================================
