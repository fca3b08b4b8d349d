------------------------ MODULE AuthenticationProofs ------------------------
(***************************************************************************)
(* What holds of ExtAuthz and SessionLimit for any number of threads, web  *)
(* workers and users' values, any timings, limits and bounds.              *)
(***************************************************************************)
EXTENDS ExtAuthz, SessionLimit, FiniteSetTheorems, TLAPS

-----------------------------------------------------------------------------
(* The authorization server.                                               *)

(* What a check holds at each step. *)
LEMMA CheckFields ==
  ASSUME TypeOK, NEW t \in Threads
  PROVE  /\ thread[t].step \in {"user", "miss"} =>
              thread[t] \in [step : {"user", "miss"}, request : Requests, start : Nat, fields : Values]
         /\ thread[t].step = "due" =>
              thread[t] \in [step : {"due"}, request : Requests, start : Nat, fields : Values, exp : Nat]
         /\ thread[t].step = "signed" =>
              thread[t] \in [step : {"signed"}, request : Requests, start : Nat, token : Tokens]
         /\ thread[t] # Idle =>
              thread[t].step \in {"user", "miss", "due", "signed"}
                /\ thread[t].request \in Requests /\ thread[t].start \in Nat
         /\ thread[t] = Idle <=> thread[t].step = "idle"
<1>1. thread[t] \in Checks \cup {Idle}
  BY DEF TypeOK
<1> QED
  BY <1>1 DEF Checks, Idle

(* An answer ends the check of its thread only. *)
LEMMA AnswerEffect ==
  ASSUME TypeOK, NEW t \in Threads, NEW r \in Requests,
         NEW outcome \in {"plain", "denied", "token", "error"}, Answer(t, r, outcome)
  PROVE  /\ thread' \in [Threads -> Checks \cup {Idle}] /\ answer' \in [Threads -> Answers \cup {Idle}]
         /\ thread'[t] = Idle /\ \A u \in Threads \ {t} : thread'[u] = thread[u]
         /\ answer'[t] = [request |-> r, outcome |-> outcome]
         /\ \A u \in Threads \ {t} : answer'[u] = answer[u]
  BY DEF Answer, TypeOK, Answers

LEMMA OutcomeType == \A r \in Requests : Outcome(r) \in {"plain", "denied", "token"}
  BY DEF Outcome

LEMMA DueDate ==
  ASSUME TypeOK
  PROVE  Due \in Nat /\ Due + TicksPerSecond > now + expiration * TicksPerSecond
<1> DEFINE due == now + expiration * TicksPerSecond
<1>1. due \in Nat
  <2>1. now \in Nat /\ expiration \in Nat /\ TicksPerSecond \in Nat
    BY ExtAuthzAssumption DEF TypeOK
  <2> QED
    BY <2>1
<1>2. TicksPerSecond \in Nat \ {0}
  BY ExtAuthzAssumption
<1>3. Due = due - (due % TicksPerSecond)
  BY DEF Due
<1> HIDE DEF due
<1>4. due - (due % TicksPerSecond) \in Nat /\ due - (due % TicksPerSecond) + TicksPerSecond > due
  BY <1>1, <1>2
<1> QED
  BY <1>3, <1>4 DEF due

(* The step that a check takes, and that the others do not. *)
LEMMA CheckUserEffect ==
  ASSUME TypeOK, NEW t \in Threads, CheckUser(t)
  PROVE  \E r \in Requests :
           /\ Outcome(r) = "token"
           /\ thread'[t] = [step |-> "user", request |-> r, start |-> now, fields |-> user["fields"]]
           /\ thread'[t] \in Checks
           /\ thread' \in [Threads -> Checks \cup {Idle}] /\ \A u \in Threads \ {t} : thread'[u] = thread[u]
<1>1. PICK r \in Requests :
        /\ Outcome(r) = "token"
        /\ thread' = [thread EXCEPT ![t] =
             [step |-> "user", request |-> r, start |-> now, fields |-> user["fields"]]]
  BY DEF CheckUser
<1>2. [step |-> "user", request |-> r, start |-> now, fields |-> user["fields"]] \in Checks
  BY DEF TypeOK, Checks, Kinds
<1> QED
  BY <1>1, <1>2 DEF TypeOK

LEMMA CacheMissEffect ==
  ASSUME TypeOK, NEW t \in Threads, CacheMiss(t)
  PROVE  /\ thread[t].step = "user" /\ thread'[t].step = "miss"
         /\ thread'[t].request = thread[t].request /\ thread'[t].start = thread[t].start
         /\ thread'[t].fields = thread[t].fields
         /\ thread'[t] \in Checks
         /\ thread' \in [Threads -> Checks \cup {Idle}] /\ \A u \in Threads \ {t} : thread'[u] = thread[u]
<1>1. thread[t].step = "user" /\ thread' = [thread EXCEPT ![t].step = "miss"]
  BY DEF CacheMiss
<1>2. thread[t] \in [step : {"user", "miss"}, request : Requests, start : Nat, fields : Values]
  BY <1>1, CheckFields
<1>3. thread'[t] = [thread[t] EXCEPT !.step = "miss"]
      /\ \A u \in Threads \ {t} : thread'[u] = thread[u]
  BY <1>1 DEF TypeOK
<1>4. [thread[t] EXCEPT !.step = "miss"]
        \in [step : {"user", "miss"}, request : Requests, start : Nat, fields : Values]
  BY <1>2
<1>5. [thread[t] EXCEPT !.step = "miss"] \in Checks
  BY <1>4 DEF Checks
<1>6. thread' \in [Threads -> Checks \cup {Idle}]
  BY <1>1, <1>5 DEF TypeOK
<1> QED
  BY <1>1, <1>2, <1>3, <1>5, <1>6

LEMMA SetDueDateEffect ==
  ASSUME TypeOK, NEW t \in Threads, SetDueDate(t)
  PROVE  /\ thread[t].step = "miss" /\ thread'[t].step = "due"
         /\ thread'[t].request = thread[t].request /\ thread'[t].start = thread[t].start
         /\ thread'[t].fields = thread[t].fields /\ thread'[t].exp = Due
         /\ thread'[t] \in Checks
         /\ thread' \in [Threads -> Checks \cup {Idle}] /\ \A u \in Threads \ {t} : thread'[u] = thread[u]
<1> DEFINE check == [step |-> "due", request |-> thread[t].request, start |-> thread[t].start,
                     fields |-> thread[t].fields, exp |-> Due]
<1>1. thread[t].step = "miss" /\ thread' = [thread EXCEPT ![t] = check]
  BY DEF SetDueDate, TypeOK
<1>2. thread[t] \in [step : {"user", "miss"}, request : Requests, start : Nat, fields : Values]
  BY <1>1, CheckFields
<1>3. check \in Checks
  BY <1>2, DueDate DEF Checks
<1> HIDE DEF check
<1>4. thread'[t] = check /\ thread' \in [Threads -> Checks \cup {Idle}]
      /\ \A u \in Threads \ {t} : thread'[u] = thread[u]
  BY <1>1, <1>3 DEF TypeOK
<1> QED
  BY <1>1, <1>3, <1>4 DEF check

LEMMA ReadClaimsEffect ==
  ASSUME TypeOK, NEW t \in Threads, ReadClaims(t)
  PROVE  /\ thread[t].step = "due" /\ thread'[t].step = "signed"
         /\ thread'[t].request = thread[t].request /\ thread'[t].start = thread[t].start
         /\ thread'[t].token =
              [fields |-> thread[t].fields, roles |-> user["roles"], exp |-> thread[t].exp]
         /\ thread'[t] \in Checks
         /\ thread' \in [Threads -> Checks \cup {Idle}] /\ \A u \in Threads \ {t} : thread'[u] = thread[u]
<1> DEFINE token == [fields |-> thread[t].fields, roles |-> user["roles"], exp |-> thread[t].exp]
           check == [step |-> "signed", request |-> thread[t].request, start |-> thread[t].start,
                     token |-> token]
<1>1. thread[t].step = "due" /\ thread' = [thread EXCEPT ![t] = check]
  BY DEF ReadClaims, TypeOK
<1>2. thread[t] \in [step : {"due"}, request : Requests, start : Nat, fields : Values, exp : Nat]
  BY <1>1, CheckFields
<1>3. check \in Checks
  BY <1>2 DEF Checks, Tokens, TypeOK, Kinds
<1> HIDE DEF check
<1>4. thread'[t] = check /\ thread' \in [Threads -> Checks \cup {Idle}]
      /\ \A u \in Threads \ {t} : thread'[u] = thread[u]
  BY <1>1, <1>3 DEF TypeOK
<1> QED
  BY <1>1, <1>3, <1>4 DEF check

(* The entry of a token lasts for a lifetime less the buffer. *)
Life(e) == (e - Buffer) * TicksPerSecond

LEMMA LifeType == \A e \in Expirations : Life(e) \in Int /\ (e > Buffer => Life(e) \in Nat)
  BY ExtAuthzAssumption DEF Life

LEMMA StoreTokenEffect ==
  ASSUME TypeOK, NEW t \in Threads, StoreToken(t)
  PROVE  /\ thread[t].step = "signed" /\ thread[t].token \in Tokens
         /\ cache' \in [token : Tokens, until : Nat] \cup {NoEntry}
         /\ cache' # NoEntry => cache'.token = thread[t].token /\ cache'.until = now + Life(expiration)
         /\ Answer(t, thread[t].request, "token") /\ thread[t].request \in Requests
<1>1. /\ thread[t].step = "signed" /\ cache' = Entry(thread[t].token)
      /\ Answer(t, thread[t].request, "token")
  BY DEF StoreToken
<1>2. thread[t].token \in Tokens /\ thread[t].request \in Requests
  BY <1>1, CheckFields
<1>3. CASE expiration > Buffer
  <2>1. cache' = [token |-> thread[t].token, until |-> now + Life(expiration)]
    BY <1>1, <1>3 DEF Entry, Life
  <2>2. now + Life(expiration) \in Nat
    BY <1>3, LifeType DEF TypeOK
  <2> QED
    BY <1>1, <1>2, <2>1, <2>2
<1>4. CASE ~(expiration > Buffer)
  BY <1>1, <1>2, <1>4 DEF Entry
<1> QED
  BY <1>3, <1>4

(* A check is only under way for a request that gets a token. *)
ChecksAllowed == \A t \in Threads : thread[t] # Idle => Outcome(thread[t].request) = "token"

(* What a check holds of the user was so when the check began, or later. *)
HeldSince ==
  \A t \in Threads :
    /\ thread[t].step \in {"user", "miss", "due"} /\ thread[t].fields # user["fields"]
         => thread[t].start <= leftAt["fields"][thread[t].fields]
    /\ thread[t].step = "signed" =>
         \A k \in Kinds :
           thread[t].token[k] # user[k] => thread[t].start <= leftAt[k][thread[t].token[k]]

(* An entry ends a lifetime after it was made, and its token was made from *)
(* what the user was at most the duration of a check before that.          *)
EntryBound ==
  cache # NoEntry =>
    \E e \in Expirations :
      /\ cache.until <= now + Life(e)
      /\ \A k \in Kinds :
           cache.token[k] # user[k] => cache.until <= leftAt[k][cache.token[k]] + MaxDelay + Life(e)

(* A due date is less than a second short of a lifetime from the start of  *)
(* the check.                                                              *)
DueDates ==
  settings = 0 =>
    \A t \in Threads :
      /\ thread[t].step = "due" =>
           thread[t].exp + TicksPerSecond > thread[t].start + expiration * TicksPerSecond
      /\ thread[t].step = "signed" =>
           thread[t].token.exp + TicksPerSecond > thread[t].start + expiration * TicksPerSecond

(* Checks take less than the buffer, by the second that due dates are cut  *)
(* by.                                                                     *)
QuickChecks == MaxDelay + TicksPerSecond <= Buffer * TicksPerSecond + 1

(* An entry does not outlast its token. *)
EntryDue == QuickChecks /\ settings = 0 /\ cache # NoEntry => cache.until <= cache.token.exp

AuthzInv ==
  /\ TypeOK /\ ChecksAllowed /\ HeldSince /\ EntryBound /\ DueDates /\ EntryDue
  /\ InternalNeedsServiceToken

LEMMA AuthzInitial == Init => AuthzInv
<1> SUFFICES ASSUME Init PROVE AuthzInv
  OBVIOUS
<1>1. TypeOK
  BY ExtAuthzAssumption DEF Init, TypeOK
<1>2. /\ \A t \in Threads : thread[t] = Idle /\ answer[t] = Idle
      /\ cache = NoEntry /\ Idle.step = "idle"
  BY DEF Init, Idle
<1> QED
  BY <1>1, <1>2 DEF AuthzInv, ChecksAllowed, HeldSince, EntryBound, DueDates, EntryDue,
                    InternalNeedsServiceToken

(* A change of the user is dated. *)
LEMMA UpdateEffect ==
  ASSUME TypeOK, NEW k \in Kinds, NEW v \in Values, Update(k, v)
  PROVE  /\ user' \in [Kinds -> Values] /\ leftAt' \in [Kinds -> [Values -> Nat]]
         /\ \A j \in Kinds, x \in Values :
              x # user'[j] =>
                \/ x # user[j] /\ leftAt'[j][x] = leftAt[j][x]
                \/ x = user[j] /\ leftAt'[j][x] = now
<1>1. /\ user' = [user EXCEPT ![k] = v]
      /\ leftAt' = IF v = user[k] THEN leftAt ELSE [leftAt EXCEPT ![k][user[k]] = now]
  BY DEF Update
<1>2. user \in [Kinds -> Values] /\ leftAt \in [Kinds -> [Values -> Nat]] /\ now \in Nat
  BY DEF TypeOK
<1>3. user' \in [Kinds -> Values] /\ leftAt' \in [Kinds -> [Values -> Nat]]
  BY <1>1, <1>2
<1>4. ASSUME NEW j \in Kinds, NEW x \in Values, x # user'[j]
      PROVE  \/ x # user[j] /\ leftAt'[j][x] = leftAt[j][x]
             \/ x = user[j] /\ leftAt'[j][x] = now
  <2>1. CASE v = user[k]
    BY <1>1, <1>2, <1>4, <2>1
  <2>2. CASE v # user[k]
    <3>1. CASE j = k
      BY <1>1, <1>2, <1>4, <2>2, <3>1
    <3>2. CASE j # k
      BY <1>1, <1>2, <1>4, <2>2, <3>2
    <3> QED
      BY <3>1, <3>2
  <2> QED
    BY <2>1, <2>2
<1> QED
  BY <1>3, <1>4

(* What the steps outside the checks do. *)
LEMMA UserStepEffect ==
  ASSUME TypeOK
  PROVE  /\ \A s \in Savers :
              LoadUser(s) \/ SaveUser(s) \/ ReleaseUser(s) =>
                /\ saver' \in [Savers -> Savings \cup {Idle}]
                /\ (cache' = cache \/ cache' = NoEntry) /\ changes' \in Nat
                /\ UNCHANGED <<now, user, expiration, thread, answer, granting, leftAt, settings>>
         /\ \A s \in Savers :
              WriteUser(s) =>
                /\ saver' \in [Savers -> Savings \cup {Idle}]
                /\ \E v \in Values : Update("fields", v)
                /\ UNCHANGED <<now, expiration, cache, thread, answer, granting, changes, settings>>
<1>1. \A s \in Savers :
        /\ saver[s].step = "loaded" => saver[s] \in [step : {"loaded"}, original : Values]
        /\ saver[s].step = "saving" => saver[s] \in [step : {"saving"}, original : Values, new : Values]
  <2>1. \A s \in Savers : saver[s] \in Savings \cup {Idle}
    BY DEF TypeOK
  <2> QED
    BY <2>1 DEF Savings, Idle
<1>2. ASSUME NEW s \in Savers, LoadUser(s)
      PROVE  saver' \in [Savers -> Savings \cup {Idle}]
  BY <1>2 DEF LoadUser, TypeOK, Savings, Kinds
<1>3. ASSUME NEW s \in Savers, SaveUser(s)
      PROVE  saver' \in [Savers -> Savings \cup {Idle}] /\ (cache' = cache \/ cache' = NoEntry)
  <2>1. PICK v \in Values :
          /\ cache' = IF v # saver[s].original THEN NoEntry ELSE cache
          /\ saver' = [saver EXCEPT ![s] = [step |-> "saving", original |-> saver[s].original, new |-> v]]
    BY <1>3 DEF SaveUser, TypeOK
  <2>2. saver[s].original \in Values
    BY <1>1, <1>3 DEF SaveUser
  <2> QED
    BY <2>1, <2>2 DEF TypeOK, Savings
<1>4. ASSUME NEW s \in Savers, ReleaseUser(s)
      PROVE  saver' \in [Savers -> Savings \cup {Idle}]
  BY <1>4 DEF ReleaseUser, TypeOK
<1>5. ASSUME NEW s \in Savers, WriteUser(s)
      PROVE  saver' \in [Savers -> Savings \cup {Idle}] /\ \E v \in Values : Update("fields", v)
  <2>1. /\ Update("fields", saver[s].new)
        /\ saver' = [saver EXCEPT ![s] = [step |-> "loaded", original |-> saver[s].original]]
    BY <1>5 DEF WriteUser, TypeOK
  <2>2. saver[s].original \in Values /\ saver[s].new \in Values
    BY <1>1, <1>5 DEF WriteUser
  <2> QED
    BY <2>1, <2>2 DEF TypeOK, Savings
<1>6. \A s \in Savers :
        LoadUser(s) \/ SaveUser(s) \/ ReleaseUser(s) =>
          /\ (cache' = cache \/ cache' = NoEntry) /\ changes' \in Nat
          /\ UNCHANGED <<now, user, expiration, thread, answer, granting, leftAt, settings>>
  BY <1>3 DEF LoadUser, SaveUser, ReleaseUser, TypeOK
<1>7. \A s \in Savers :
        WriteUser(s) => UNCHANGED <<now, expiration, cache, thread, answer, granting, changes, settings>>
  BY DEF WriteUser
<1> QED
  BY <1>2, <1>3, <1>4, <1>5, <1>6, <1>7

(* A check that goes on disturbs nothing but itself. *)
LEMMA CheckGoesOn ==
  ASSUME AuthzInv, NEW t \in Threads,
         thread' \in [Threads -> Checks \cup {Idle}], \A u \in Threads \ {t} : thread'[u] = thread[u],
         thread'[t] \in Checks,
         Outcome(thread'[t].request) = "token",
         thread'[t].start <= now, now <= thread'[t].start + MaxDelay,
         thread'[t].step \in {"user", "miss", "due"} /\ thread'[t].fields # user["fields"]
           => thread'[t].start <= leftAt["fields"][thread'[t].fields],
         thread'[t].step = "signed" =>
           \A k \in Kinds :
             thread'[t].token[k] # user[k] => thread'[t].start <= leftAt[k][thread'[t].token[k]],
         settings = 0 /\ thread'[t].step = "due" =>
           thread'[t].exp + TicksPerSecond > thread'[t].start + expiration * TicksPerSecond,
         settings = 0 /\ thread'[t].step = "signed" =>
           thread'[t].token.exp + TicksPerSecond > thread'[t].start + expiration * TicksPerSecond,
         UNCHANGED <<now, user, expiration, cache, answer, saver, granting, leftAt, changes, settings>>
  PROVE  AuthzInv'
<1>1. TypeOK'
  <2>1. TypeOK
    BY DEF AuthzInv
  <2>2. \A u \in Threads :
          thread'[u] # Idle => thread'[u].start =< now' /\ now' =< thread'[u].start + MaxDelay
    BY <2>1 DEF TypeOK
  <2> QED
    BY <2>1, <2>2 DEF TypeOK
<1>2. ChecksAllowed'
  BY DEF AuthzInv, ChecksAllowed
<1>3. HeldSince'
  BY DEF AuthzInv, HeldSince
<1>4. DueDates'
  BY DEF AuthzInv, DueDates
<1>5. EntryBound' /\ EntryDue' /\ InternalNeedsServiceToken'
  BY DEF AuthzInv, EntryBound, EntryDue, InternalNeedsServiceToken
<1> QED
  BY <1>1, <1>2, <1>3, <1>4, <1>5 DEF AuthzInv

(* An internal route is answered for a service only. *)
LEMMA OutcomeGuards ==
  ASSUME NEW r \in Requests, Outcome(r) \in {"plain", "token"},
         r.internal, ~r.auth_none, ~r.oidc_path
  PROVE  r.credential = "service"
<1>1. ~Bypassed(r)
  BY DEF Bypassed
<1> QED
  BY <1>1 DEF Outcome

(* An answer ends a check; what it leaves in the cache is for the caller. *)
LEMMA CheckAnswered ==
  ASSUME AuthzInv, NEW t \in Threads, NEW r \in Requests, NEW outcome \in {"plain", "denied", "token", "error"},
         Answer(t, r, outcome), outcome = Outcome(r) \/ outcome = "error",
         UNCHANGED <<now, user, expiration, saver, granting, leftAt, changes, settings>>,
         cache' \in [token : Tokens, until : Nat] \cup {NoEntry}, EntryBound', EntryDue'
  PROVE  AuthzInv'
<1>1. TypeOK
  BY DEF AuthzInv
<1>2. /\ thread' \in [Threads -> Checks \cup {Idle}] /\ answer' \in [Threads -> Answers \cup {Idle}]
      /\ thread'[t] = Idle /\ \A u \in Threads \ {t} : thread'[u] = thread[u]
      /\ answer'[t] = [request |-> r, outcome |-> outcome]
      /\ \A u \in Threads \ {t} : answer'[u] = answer[u]
  BY <1>1, AnswerEffect
<1>3. TypeOK'
  BY <1>1, <1>2 DEF TypeOK
<1>4. ChecksAllowed'
  BY <1>2 DEF AuthzInv, ChecksAllowed
<1>5. HeldSince' /\ DueDates'
  <2>1. Idle.step = "idle"
    BY DEF Idle
  <2> QED
    BY <1>2, <2>1 DEF AuthzInv, HeldSince, DueDates
<1>6. InternalNeedsServiceToken'
  <2> SUFFICES ASSUME NEW u \in Threads, answer'[u] # Idle
               PROVE  LET q == answer'[u].request
                      IN  (q.internal /\ ~q.auth_none /\ ~q.oidc_path
                             /\ answer'[u].outcome \in {"plain", "token"})
                            => q.credential = "service"
    BY DEF InternalNeedsServiceToken
  <2>1. CASE u = t
    <3>1. answer'[u].request = r /\ answer'[u].outcome = outcome
      BY <1>2, <2>1
    <3> QED
      BY <3>1, OutcomeGuards
  <2>2. CASE u # t
    <3>1. answer'[u] = answer[u]
      BY <1>2, <2>2
    <3> QED
      BY <3>1 DEF AuthzInv, InternalNeedsServiceToken
  <2> QED
    BY <2>1, <2>2
<1> QED
  BY <1>3, <1>4, <1>5, <1>6 DEF AuthzInv

(* Dropping the token disturbs nothing. *)
LEMMA CacheDropped ==
  ASSUME AuthzInv, cache' = cache \/ cache' = NoEntry,
         UNCHANGED <<now, user, expiration, thread, answer, leftAt, settings>>,
         saver' \in [Savers -> Savings \cup {Idle}], granting' \in Values \cup {NoValue}, changes' \in Nat
  PROVE  AuthzInv'
<1>1. TypeOK'
  BY DEF AuthzInv, TypeOK
<1>2. ChecksAllowed' /\ HeldSince' /\ DueDates' /\ InternalNeedsServiceToken'
  BY DEF AuthzInv, ChecksAllowed, HeldSince, DueDates, InternalNeedsServiceToken
<1>3. EntryBound' /\ EntryDue'
  BY DEF AuthzInv, EntryBound, EntryDue
<1> QED
  BY <1>1, <1>2, <1>3 DEF AuthzInv

(* A change of the user dates what checks and the cache still hold. *)
LEMMA UserChanged ==
  ASSUME AuthzInv, NEW k \in Kinds, NEW v \in Values, Update(k, v),
         UNCHANGED <<now, expiration, cache, thread, answer, changes, settings>>,
         saver' \in [Savers -> Savings \cup {Idle}], granting' \in Values \cup {NoValue}
  PROVE  AuthzInv'
<1>1. TypeOK
  BY DEF AuthzInv
<1>2. /\ user' \in [Kinds -> Values] /\ leftAt' \in [Kinds -> [Values -> Nat]]
      /\ \A j \in Kinds, x \in Values :
           x # user'[j] =>
             \/ x # user[j] /\ leftAt'[j][x] = leftAt[j][x]
             \/ x = user[j] /\ leftAt'[j][x] = now
  BY <1>1, UpdateEffect
<1>3. TypeOK'
  BY <1>1, <1>2 DEF TypeOK
<1>4. ChecksAllowed' /\ DueDates' /\ EntryDue' /\ InternalNeedsServiceToken'
  BY DEF AuthzInv, ChecksAllowed, DueDates, EntryDue, InternalNeedsServiceToken
<1>5. HeldSince'
  <2> SUFFICES ASSUME NEW t \in Threads
               PROVE  /\ thread[t].step \in {"user", "miss", "due"} /\ thread[t].fields # user'["fields"]
                           => thread[t].start <= leftAt'["fields"][thread[t].fields]
                      /\ thread[t].step = "signed" =>
                           \A j \in Kinds :
                             thread[t].token[j] # user'[j] => thread[t].start <= leftAt'[j][thread[t].token[j]]
    BY DEF HeldSince
  <2>1. CASE thread[t].step \in {"user", "miss", "due"}
    <3>1. thread[t].fields \in Values /\ thread[t].start \in Nat /\ thread[t].start <= now
      BY <1>1, <2>1, CheckFields DEF TypeOK
    <3>2. thread[t].fields # user["fields"] => thread[t].start <= leftAt["fields"][thread[t].fields]
      BY <2>1 DEF AuthzInv, HeldSince
    <3> QED
      BY <2>1, <3>1, <3>2, <1>2 DEF Kinds
  <2>2. CASE thread[t].step = "signed"
    <3>1. thread[t].token \in Tokens /\ thread[t].start \in Nat /\ thread[t].start <= now
      BY <1>1, <2>2, CheckFields DEF TypeOK
    <3>2. ASSUME NEW j \in Kinds, thread[t].token[j] # user'[j]
          PROVE  thread[t].start <= leftAt'[j][thread[t].token[j]]
      <4>1. thread[t].token[j] \in Values
        BY <3>1 DEF Tokens, Kinds
      <4>2. thread[t].token[j] # user[j] => thread[t].start <= leftAt[j][thread[t].token[j]]
        BY <2>2 DEF AuthzInv, HeldSince
      <4> QED
        BY <3>1, <3>2, <4>1, <4>2, <1>2
    <3> QED
      BY <2>2, <3>2
  <2> QED
    BY <2>1, <2>2
<1>6. EntryBound'
  <2> SUFFICES ASSUME cache # NoEntry
               PROVE  \E e \in Expirations :
                        /\ cache.until <= now + Life(e)
                        /\ \A j \in Kinds :
                             cache.token[j] # user'[j]
                               => cache.until <= leftAt'[j][cache.token[j]] + MaxDelay + Life(e)
    BY DEF EntryBound
  <2>1. PICK e \in Expirations :
          /\ cache.until <= now + Life(e)
          /\ \A j \in Kinds :
               cache.token[j] # user[j] => cache.until <= leftAt[j][cache.token[j]] + MaxDelay + Life(e)
    BY DEF AuthzInv, EntryBound
  <2>2. cache.token \in Tokens /\ cache.until \in Nat /\ now \in Nat
    BY <1>1 DEF TypeOK
  <2>3. Life(e) \in Int /\ MaxDelay \in Nat
    BY LifeType, ExtAuthzAssumption
  <2>4. ASSUME NEW j \in Kinds, cache.token[j] # user'[j]
        PROVE  cache.until <= leftAt'[j][cache.token[j]] + MaxDelay + Life(e)
    <3>1. cache.token[j] \in Values
      BY <2>2 DEF Tokens, Kinds
    <3>2. CASE cache.token[j] # user[j] /\ leftAt'[j][cache.token[j]] = leftAt[j][cache.token[j]]
      BY <3>2, <2>1
    <3>3. CASE leftAt'[j][cache.token[j]] = now
      BY <3>3, <2>1, <2>2, <2>3
    <3> QED
      BY <1>2, <2>4, <3>1, <3>2, <3>3
  <2> QED
    BY <2>1, <2>4
<1> QED
  BY <1>3, <1>4, <1>5, <1>6 DEF AuthzInv

LEMMA AuthzStep == AuthzInv /\ [Next]_vars => AuthzInv'
<1> SUFFICES ASSUME AuthzInv, [Next]_vars PROVE AuthzInv'
  OBVIOUS
<1>1. TypeOK /\ ChecksAllowed /\ HeldSince /\ EntryBound /\ DueDates /\ EntryDue
  BY DEF AuthzInv
<1>2. ASSUME NEW t \in Threads, CheckSettled(t) PROVE AuthzInv'
  <2>1. PICK r \in Requests : Outcome(r) # "token" /\ Answer(t, r, Outcome(r))
    BY <1>2 DEF CheckSettled
  <2>2. UNCHANGED <<now, user, expiration, cache, saver, granting, leftAt, changes, settings>>
    BY <1>2 DEF CheckSettled
  <2>3. cache' \in [token : Tokens, until : Nat] \cup {NoEntry} /\ EntryBound' /\ EntryDue'
    BY <1>1, <2>2 DEF TypeOK, EntryBound, EntryDue
  <2>4. Outcome(r) \in {"plain", "denied", "token", "error"}
    BY OutcomeType
  <2> QED
    BY <2>1, <2>2, <2>3, <2>4, CheckAnswered
<1>3. ASSUME NEW t \in Threads, CheckUser(t) PROVE AuthzInv'
  <2>1. PICK r \in Requests :
          /\ Outcome(r) = "token"
          /\ thread'[t] = [step |-> "user", request |-> r, start |-> now, fields |-> user["fields"]]
          /\ thread'[t] \in Checks
          /\ thread' \in [Threads -> Checks \cup {Idle}] /\ \A u \in Threads \ {t} : thread'[u] = thread[u]
    BY <1>1, <1>3, CheckUserEffect
  <2>2. UNCHANGED <<now, user, expiration, cache, answer, saver, granting, leftAt, changes, settings>>
    BY <1>3 DEF CheckUser
  <2>3. /\ thread'[t].step = "user" /\ thread'[t].request = r
        /\ thread'[t].start = now /\ thread'[t].fields = user["fields"]
    BY <2>1
  <2>4. now <= now /\ now <= now + MaxDelay
    BY <1>1, ExtAuthzAssumption DEF TypeOK
  <2> QED
    BY <2>1, <2>2, <2>3, <2>4, CheckGoesOn
<1>4. ASSUME NEW t \in Threads, CacheHit(t) PROVE AuthzInv'
  <2>1. /\ thread[t].step = "user" /\ Answer(t, thread[t].request, "token")
        /\ UNCHANGED <<now, user, expiration, cache, saver, granting, leftAt, changes, settings>>
    BY <1>4 DEF CacheHit
  <2>2. thread[t].request \in Requests /\ Outcome(thread[t].request) = "token"
    BY <1>1, <2>1, CheckFields DEF ChecksAllowed
  <2>3. cache' \in [token : Tokens, until : Nat] \cup {NoEntry} /\ EntryBound' /\ EntryDue'
    BY <1>1, <2>1 DEF TypeOK, EntryBound, EntryDue
  <2> QED
    BY <2>1, <2>2, <2>3, CheckAnswered
<1>5. ASSUME NEW t \in Threads, CacheMiss(t) PROVE AuthzInv'
  <2>1. /\ thread[t].step = "user" /\ thread'[t].step = "miss"
        /\ thread'[t].request = thread[t].request /\ thread'[t].start = thread[t].start
        /\ thread'[t].fields = thread[t].fields
        /\ thread'[t] \in Checks
        /\ thread' \in [Threads -> Checks \cup {Idle}] /\ \A u \in Threads \ {t} : thread'[u] = thread[u]
    BY <1>1, <1>5, CacheMissEffect
  <2>2. UNCHANGED <<now, user, expiration, cache, answer, saver, granting, leftAt, changes, settings>>
    BY <1>5 DEF CacheMiss
  <2>3. thread[t] # Idle
    BY <1>1, <2>1, CheckFields
  <2>4. /\ Outcome(thread[t].request) = "token"
        /\ thread[t].start <= now /\ now <= thread[t].start + MaxDelay
        /\ thread[t].fields # user["fields"] => thread[t].start <= leftAt["fields"][thread[t].fields]
    BY <1>1, <2>1, <2>3 DEF TypeOK, ChecksAllowed, HeldSince
  <2> QED
    BY <2>1, <2>2, <2>4, CheckGoesOn
<1>6. ASSUME NEW t \in Threads, SetDueDate(t) PROVE AuthzInv'
  <2>1. /\ thread[t].step = "miss" /\ thread'[t].step = "due"
        /\ thread'[t].request = thread[t].request /\ thread'[t].start = thread[t].start
        /\ thread'[t].fields = thread[t].fields /\ thread'[t].exp = Due
        /\ thread'[t] \in Checks
        /\ thread' \in [Threads -> Checks \cup {Idle}] /\ \A u \in Threads \ {t} : thread'[u] = thread[u]
    BY <1>1, <1>6, SetDueDateEffect
  <2>2. UNCHANGED <<now, user, expiration, cache, answer, saver, granting, leftAt, changes, settings>>
    BY <1>6 DEF SetDueDate
  <2>3. thread[t] # Idle
    BY <1>1, <2>1, CheckFields
  <2>4. /\ Outcome(thread[t].request) = "token"
        /\ thread[t].start <= now /\ now <= thread[t].start + MaxDelay
        /\ thread[t].fields # user["fields"] => thread[t].start <= leftAt["fields"][thread[t].fields]
    BY <1>1, <2>1, <2>3 DEF TypeOK, ChecksAllowed, HeldSince
  <2>5. Due + TicksPerSecond > thread[t].start + expiration * TicksPerSecond
    <3>1. Due \in Nat /\ Due + TicksPerSecond > now + expiration * TicksPerSecond
      BY <1>1, DueDate
    <3>2. expiration \in Nat /\ TicksPerSecond \in Nat /\ now \in Nat /\ thread[t].start \in Nat
      BY <1>1, <2>3, CheckFields, ExtAuthzAssumption DEF TypeOK
    <3>3. expiration * TicksPerSecond \in Nat
      BY <3>2
    <3> QED
      BY <2>4, <3>1, <3>2, <3>3
  <2> QED
    BY <2>1, <2>2, <2>4, <2>5, CheckGoesOn
<1>7. ASSUME NEW t \in Threads, ReadClaims(t) PROVE AuthzInv'
  <2>1. /\ thread[t].step = "due" /\ thread'[t].step = "signed"
        /\ thread'[t].request = thread[t].request /\ thread'[t].start = thread[t].start
        /\ thread'[t].token =
             [fields |-> thread[t].fields, roles |-> user["roles"], exp |-> thread[t].exp]
        /\ thread'[t] \in Checks
        /\ thread' \in [Threads -> Checks \cup {Idle}] /\ \A u \in Threads \ {t} : thread'[u] = thread[u]
    BY <1>1, <1>7, ReadClaimsEffect
  <2>2. UNCHANGED <<now, user, expiration, cache, answer, saver, granting, leftAt, changes, settings>>
    BY <1>7 DEF ReadClaims
  <2>3. thread[t] # Idle
    BY <1>1, <2>1, CheckFields
  <2>4. /\ Outcome(thread[t].request) = "token"
        /\ thread[t].start <= now /\ now <= thread[t].start + MaxDelay
        /\ thread[t].fields # user["fields"] => thread[t].start <= leftAt["fields"][thread[t].fields]
        /\ settings = 0 => thread[t].exp + TicksPerSecond > thread[t].start + expiration * TicksPerSecond
    BY <1>1, <2>1, <2>3 DEF TypeOK, ChecksAllowed, HeldSince, DueDates
  <2>5. /\ thread'[t].token["fields"] = thread[t].fields /\ thread'[t].token["roles"] = user["roles"]
        /\ thread'[t].token.exp = thread[t].exp
    BY <2>1
  <2>6. \A k \in Kinds : thread'[t].token[k] # user[k] => thread'[t].start <= leftAt[k][thread'[t].token[k]]
    BY <2>1, <2>4, <2>5 DEF Kinds
  <2> QED
    BY <2>1, <2>2, <2>4, <2>5, <2>6, CheckGoesOn
<1>8. ASSUME NEW t \in Threads, StoreToken(t) PROVE AuthzInv'
  <2>1. /\ thread[t].step = "signed" /\ thread[t].token \in Tokens
        /\ cache' \in [token : Tokens, until : Nat] \cup {NoEntry}
        /\ cache' # NoEntry => cache'.token = thread[t].token /\ cache'.until = now + Life(expiration)
        /\ Answer(t, thread[t].request, "token") /\ thread[t].request \in Requests
    BY <1>1, <1>8, StoreTokenEffect
  <2>2. UNCHANGED <<now, user, expiration, saver, granting, leftAt, changes, settings>>
    BY <1>8 DEF StoreToken
  <2>3. thread[t] # Idle /\ thread[t].start \in Nat
    BY <1>1, <2>1, CheckFields
  <2>4. /\ Outcome(thread[t].request) = "token"
        /\ thread[t].start <= now /\ now <= thread[t].start + MaxDelay
        /\ \A k \in Kinds :
             thread[t].token[k] # user[k] => thread[t].start <= leftAt[k][thread[t].token[k]]
        /\ settings = 0 =>
             thread[t].token.exp + TicksPerSecond > thread[t].start + expiration * TicksPerSecond
    BY <1>1, <2>1, <2>3 DEF TypeOK, ChecksAllowed, HeldSince, DueDates
  <2>5. /\ now \in Nat /\ MaxDelay \in Nat /\ expiration \in Expirations
        /\ Life(expiration) \in Int /\ leftAt \in [Kinds -> [Values -> Nat]]
    BY <1>1, LifeType, ExtAuthzAssumption DEF TypeOK
  <2>6. EntryBound'
    <3> SUFFICES ASSUME cache' # NoEntry
                 PROVE  /\ cache'.until <= now + Life(expiration)
                        /\ \A k \in Kinds :
                             cache'.token[k] # user[k]
                               => cache'.until <= leftAt[k][cache'.token[k]] + MaxDelay + Life(expiration)
      BY <2>2, <2>5 DEF EntryBound
    <3>1. cache'.token = thread[t].token /\ cache'.until = now + Life(expiration)
      BY <2>1
    <3>2. ASSUME NEW k \in Kinds, thread[t].token[k] # user[k]
          PROVE  now + Life(expiration) <= leftAt[k][thread[t].token[k]] + MaxDelay + Life(expiration)
      <4>1. leftAt[k][thread[t].token[k]] \in Nat
        BY <2>1, <2>5 DEF Tokens, Kinds
      <4> QED
        BY <2>3, <2>4, <2>5, <3>2, <4>1
    <3> QED
      BY <2>5, <3>1, <3>2
  <2>7. EntryDue'
    <3> SUFFICES ASSUME QuickChecks, settings = 0, cache' # NoEntry
                 PROVE  now + Life(expiration) <= thread[t].token.exp
      BY <2>1, <2>2 DEF EntryDue
    <3>1. TicksPerSecond \in Nat /\ expiration \in Nat /\ Buffer \in Nat /\ thread[t].token.exp \in Nat
      BY <2>1, <2>5, ExtAuthzAssumption DEF Tokens
    <3>2. Life(expiration) = expiration * TicksPerSecond - Buffer * TicksPerSecond
      BY <3>1 DEF Life
    <3>3. expiration * TicksPerSecond \in Nat /\ Buffer * TicksPerSecond \in Nat
      BY <3>1
    <3> QED
      BY <2>3, <2>4, <2>5, <3>1, <3>2, <3>3 DEF QuickChecks
  <2> QED
    BY <2>1, <2>2, <2>4, <2>6, <2>7, CheckAnswered
<1>9. ASSUME NEW t \in Threads, CheckRaises(t) PROVE AuthzInv'
  <2>1. /\ thread[t] # Idle /\ Answer(t, thread[t].request, "error")
        /\ UNCHANGED <<now, user, expiration, cache, saver, granting, leftAt, changes, settings>>
    BY <1>9 DEF CheckRaises
  <2>2. thread[t].request \in Requests
    BY <1>1, <2>1, CheckFields
  <2>3. cache' \in [token : Tokens, until : Nat] \cup {NoEntry} /\ EntryBound' /\ EntryDue'
    BY <1>1, <2>1 DEF TypeOK, EntryBound, EntryDue
  <2> QED
    BY <2>1, <2>2, <2>3, CheckAnswered
<1>10. ASSUME NEW s \in Savers, LoadUser(s) \/ SaveUser(s) \/ ReleaseUser(s) PROVE AuthzInv'
  <2>1. /\ saver' \in [Savers -> Savings \cup {Idle}]
        /\ (cache' = cache \/ cache' = NoEntry) /\ changes' \in Nat
        /\ UNCHANGED <<now, user, expiration, thread, answer, granting, leftAt, settings>>
    BY <1>1, <1>10, UserStepEffect
  <2>2. granting' \in Values \cup {NoValue}
    BY <1>1, <2>1 DEF TypeOK
  <2> QED
    BY <2>1, <2>2, CacheDropped
<1>11. ASSUME NEW s \in Savers, WriteUser(s) PROVE AuthzInv'
  <2>1. /\ saver' \in [Savers -> Savings \cup {Idle}]
        /\ \E v \in Values : Update("fields", v)
        /\ UNCHANGED <<now, expiration, cache, thread, answer, granting, changes, settings>>
    BY <1>1, <1>11, UserStepEffect
  <2>2. granting' \in Values \cup {NoValue} /\ "fields" \in Kinds
    BY <1>1, <2>1 DEF TypeOK, Kinds
  <2> QED
    BY <2>1, <2>2, UserChanged
<1>12. ASSUME ChangeRoles \/ LogOut PROVE AuthzInv'
  <2>1. cache' = NoEntry /\ UNCHANGED <<now, user, expiration, thread, answer, saver, leftAt, settings>>
    BY <1>12 DEF ChangeRoles, LogOut
  <2>2. granting' \in Values \cup {NoValue} /\ changes' \in Nat
    BY <1>1, <1>12 DEF ChangeRoles, LogOut, TypeOK
  <2>3. saver' \in [Savers -> Savings \cup {Idle}]
    BY <1>1, <2>1 DEF TypeOK
  <2> QED
    BY <2>1, <2>2, <2>3, CacheDropped
<1>13. ASSUME CommitRoles PROVE AuthzInv'
  <2>1. /\ granting # NoValue /\ Update("roles", granting) /\ granting' = NoValue
        /\ UNCHANGED <<now, expiration, cache, thread, answer, saver, changes, settings>>
    BY <1>13 DEF CommitRoles
  <2>2. granting \in Values /\ saver' \in [Savers -> Savings \cup {Idle}] /\ "roles" \in Kinds
    BY <1>1, <2>1 DEF TypeOK, Kinds
  <2> QED
    BY <2>1, <2>2, UserChanged
<1>14. ASSUME SetExpiration PROVE AuthzInv'
  <2>1. /\ expiration' \in Expirations /\ settings' = settings + 1
        /\ UNCHANGED <<now, user, cache, thread, answer, saver, granting, leftAt, changes>>
    BY <1>14 DEF SetExpiration
  <2>2. settings' \in Nat /\ settings' # 0
    BY <1>1, <2>1 DEF TypeOK
  <2>3. TypeOK'
    BY <1>1, <2>1, <2>2 DEF TypeOK
  <2>4. ChecksAllowed' /\ HeldSince' /\ EntryBound' /\ InternalNeedsServiceToken'
    BY <2>1 DEF AuthzInv, ChecksAllowed, HeldSince, EntryBound, InternalNeedsServiceToken
  <2>5. DueDates' /\ EntryDue'
    BY <2>2 DEF DueDates, EntryDue
  <2> QED
    BY <2>3, <2>4, <2>5 DEF AuthzInv
<1>15. ASSUME Tick PROVE AuthzInv'
  <2>1. /\ \A t \in Threads : thread[t] # Idle => now - thread[t].start < MaxDelay
        /\ now' = now + 1
        /\ UNCHANGED <<user, expiration, cache, thread, answer, saver, granting, leftAt, changes, settings>>
    BY <1>15 DEF Tick
  <2>2. ASSUME NEW t \in Threads, thread[t] # Idle
        PROVE  thread[t].start =< now' /\ now' =< thread[t].start + MaxDelay
    <3>1. thread[t].start \in Nat /\ now \in Nat /\ MaxDelay \in Nat /\ thread[t].start <= now
      BY <1>1, <2>2, CheckFields, ExtAuthzAssumption DEF TypeOK
    <3> QED
      BY <2>1, <2>2, <3>1
  <2>3. TypeOK'
    BY <1>1, <2>1, <2>2 DEF TypeOK
  <2>4. ChecksAllowed' /\ HeldSince' /\ DueDates' /\ EntryDue' /\ InternalNeedsServiceToken'
    BY <2>1 DEF AuthzInv, ChecksAllowed, HeldSince, DueDates, EntryDue, InternalNeedsServiceToken
  <2>5. EntryBound'
    <3>1. now \in Nat /\ \A e \in Expirations : Life(e) \in Int
      BY <1>1, LifeType DEF TypeOK
    <3>2. cache # NoEntry => cache.until \in Nat
      BY <1>1 DEF TypeOK
    <3>3. \A e \in Expirations : cache # NoEntry /\ cache.until <= now + Life(e) => cache.until <= now' + Life(e)
      BY <2>1, <3>1, <3>2
    <3> QED
      BY <1>1, <2>1, <3>3 DEF EntryBound
  <2> QED
    BY <2>3, <2>4, <2>5 DEF AuthzInv
<1>16. ASSUME UNCHANGED vars PROVE AuthzInv'
  BY <1>16 DEF vars, AuthzInv, TypeOK, ChecksAllowed, HeldSince, EntryBound, DueDates, EntryDue,
               InternalNeedsServiceToken
<1> QED
  BY <1>2, <1>3, <1>4, <1>5, <1>6, <1>7, <1>8, <1>9, <1>10, <1>11, <1>12, <1>13, <1>14, <1>15, <1>16
     DEF Next

LEMMA AuthzInvariant == Spec => []AuthzInv
  BY AuthzInitial, AuthzStep, PTL DEF Spec

(***************************************************************************)
(* Types of the checks, the cached token and the savers; no check takes    *)
(* longer than MaxDelay.                                                   *)
(***************************************************************************)
THEOREM AuthzTypeCorrect == Spec => []TypeOK
<1>1. AuthzInv => TypeOK
  BY DEF AuthzInv
<1> QED
  BY <1>1, AuthzInvariant, PTL

(***************************************************************************)
(* Whatever order the early returns of Check are met in, on any number of  *)
(* threads, an internal route with authentication is only reached with a   *)
(* service token (control_plane.py).                                       *)
(***************************************************************************)
THEOREM InternalRoutesNeedServiceToken == Spec => []InternalNeedsServiceToken
<1>1. AuthzInv => InternalNeedsServiceToken
  BY DEF AuthzInv
<1> QED
  BY <1>1, AuthzInvariant, PTL

(***************************************************************************)
(* A token that disagrees with the user is served from the cache for at    *)
(* most the lifetime of an entry and the duration of a check after the     *)
(* change, whatever checks overtake the invalidation (jwt_cache.py,        *)
(* User.save, utils/rbac.py).                                              *)
(***************************************************************************)
THEOREM StaleTokensTimeOut == Spec => []StaleAtMostLifetime
<1>1. AuthzInv => StaleAtMostLifetime
  <2> SUFFICES ASSUME AuthzInv, Cached, NEW k \in Kinds, cache.token[k] # user[k]
               PROVE  \E e \in Expirations :
                        now < leftAt[k][cache.token[k]] + MaxDelay + (e - Buffer) * TicksPerSecond
    BY DEF StaleAtMostLifetime
  <2>1. cache # NoEntry /\ now < cache.until
    BY DEF Cached
  <2>2. PICK e \in Expirations : cache.until <= leftAt[k][cache.token[k]] + MaxDelay + Life(e)
    BY <2>1 DEF AuthzInv, EntryBound
  <2>3. cache.token \in Tokens /\ cache.until \in Nat /\ now \in Nat /\ leftAt \in [Kinds -> [Values -> Nat]]
    BY <2>1 DEF AuthzInv, TypeOK
  <2>4. leftAt[k][cache.token[k]] \in Nat /\ MaxDelay \in Nat /\ Life(e) \in Int
    BY <2>3, LifeType, ExtAuthzAssumption DEF Tokens, Kinds
  <2>5. now < leftAt[k][cache.token[k]] + MaxDelay + Life(e)
    BY <2>1, <2>2, <2>3, <2>4
  <2> QED
    BY <2>5 DEF Life
<1> QED
  BY <1>1, AuthzInvariant, PTL

(***************************************************************************)
(* "so that there isn't a window of time where the cache serves out an     *)
(* expired token" (jwt_cache.py): the buffer keeps that promise for every  *)
(* lifetime, if no check takes longer than the buffer less the second that *)
(* due dates are cut by.  With the default buffer of 15 seconds, that is   *)
(* 14 seconds.                                                             *)
(***************************************************************************)
THEOREM CacheServesLiveTokens ==
  ASSUME QuickChecks
  PROVE  Spec => []LiveInCache
<1>1. AuthzInv => LiveInCache
  <2> SUFFICES ASSUME AuthzInv, settings = 0, Cached PROVE now < cache.token.exp
    BY DEF LiveInCache
  <2>1. cache # NoEntry /\ now < cache.until
    BY DEF Cached
  <2>2. cache.until <= cache.token.exp
    BY <2>1 DEF AuthzInv, EntryDue
  <2>3. cache.token.exp \in Nat /\ cache.until \in Nat /\ now \in Nat
    BY <2>1 DEF AuthzInv, TypeOK, Tokens
  <2> QED
    BY <2>1, <2>2, <2>3
<1> QED
  BY <1>1, AuthzInvariant, PTL

-----------------------------------------------------------------------------
(* The limit of sessions.                                                  *)

LEMMA SessionSets ==
  /\ \A S \in SUBSET Session : IsFiniteSet(S) /\ Cardinality(S) \in Nat
  /\ \A S \in SUBSET Worker : IsFiniteSet(S) /\ Cardinality(S) \in Nat
  /\ Cardinality(Worker) \in Nat
<1>1. IsFiniteSet(Session)
  BY SessionAssumption, FS_Interval DEF Session
<1> QED
  BY <1>1, SessionAssumption, FS_Subset, FS_CardinalityType

(* No more than the limit and one are left of the rows of a query: the     *)
(* number of newer rows tells them apart.                                  *)
LEMMA NewestLeft ==
  ASSUME NEW rows \in SUBSET Session, limit \in Nat
  PROVE  Cardinality(rows \ OverLimit(rows)) <= limit + 1
<1> DEFINE newer(s) == {x \in rows : x > s}
           left == rows \ OverLimit(rows)
           rank == [s \in left |-> Cardinality(newer(s))]
<1>1. \A s : newer(s) \in SUBSET Session
  BY DEF Session
<1>2. \A s : IsFiniteSet(newer(s)) /\ Cardinality(newer(s)) \in Nat
  BY <1>1, SessionSets
<1>3. \A s \in left : Cardinality(newer(s)) \in 0 .. limit
  <2> SUFFICES ASSUME NEW s \in left PROVE Cardinality(newer(s)) \in 0 .. limit
    OBVIOUS
  <2>1. ~(Cardinality(newer(s)) >= limit + 1)
    BY DEF OverLimit
  <2>2. Cardinality(newer(s)) \in Nat
    BY <1>2
  <2> QED
    BY <2>1, <2>2
<1>4. ASSUME NEW s \in left, NEW t \in left, s < t
      PROVE  Cardinality(newer(t)) < Cardinality(newer(s))
  <2>1. s \in Nat /\ t \in Nat /\ t \in rows
    BY SessionAssumption DEF Session
  <2>2. newer(t) \in SUBSET newer(s) /\ newer(t) # newer(s)
    <3>1. t \in newer(s) /\ t \notin newer(t)
      BY <1>4, <2>1
    <3>2. \A x \in newer(t) : x \in newer(s)
      BY <1>4, <2>1 DEF Session
    <3> QED
      BY <3>1, <3>2
  <2>3. /\ Cardinality(newer(t)) <= Cardinality(newer(s))
        /\ Cardinality(newer(t)) # Cardinality(newer(s))
    BY <1>2, <2>2, FS_Subset
  <2>4. Cardinality(newer(t)) \in Nat /\ Cardinality(newer(s)) \in Nat
    BY <1>2
  <2> QED
    BY <2>3, <2>4
<1> HIDE DEF newer
<1>5. rank \in [left -> 0 .. limit]
  BY <1>3
<1>6. \A s, t \in left : rank[s] = rank[t] => s = t
  <2> SUFFICES ASSUME NEW s \in left, NEW t \in left, s # t PROVE rank[s] # rank[t]
    OBVIOUS
  <2>1. s \in Nat /\ t \in Nat
    BY SessionAssumption DEF Session
  <2>2. s < t \/ t < s
    BY <2>1
  <2>3. rank[s] = Cardinality(newer(s)) /\ rank[t] = Cardinality(newer(t))
    OBVIOUS
  <2>4. Cardinality(newer(t)) \in Nat /\ Cardinality(newer(s)) \in Nat
    BY <1>2
  <2> QED
    BY <1>4, <2>2, <2>3, <2>4
<1> HIDE DEF rank, left
<1>7. rank \in Injection(left, 0 .. limit)
  BY <1>5, <1>6 DEF Injection, IsInjective
<1>8. IsFiniteSet(0 .. limit) /\ Cardinality(0 .. limit) = limit + 1
  BY FS_Interval
<1>9. Cardinality(left) <= Cardinality(0 .. limit)
  BY <1>7, <1>8, FS_Injection
<1> QED
  BY <1>8, <1>9 DEF left

Locking == {w \in Worker : wpc[w] = "locking"}

(***************************************************************************)
(* How the logins under way overlap.  before[w] are the transactions that  *)
(* were under way when the query of w began and still are; since[w] are    *)
(* the sessions committed since it began.  extra are the active sessions   *)
(* that the last eviction did not see, and late the transactions that may  *)
(* each add one to them.                                                   *)
(***************************************************************************)
Overlap(before, since, late, extra) ==
  /\ before \in [Worker -> SUBSET Worker] /\ since \in [Worker -> SUBSET Session]
  /\ late \in SUBSET Worker /\ extra \in SUBSET Session /\ late \subseteq Locking
  /\ \A w \in Locking : w \notin before[w] /\ before[w] \subseteq Locking
  /\ \A v, w \in Locking : v # w => v \in before[w] \/ w \in before[v]
  /\ \A w \in Locking : \A v \in before[w] : before[v] \subseteq before[w]
  /\ \A w \in late : before[w] \subseteq late
  /\ \A w \in Locking : Active \subseteq toLock[w] \cup kept[w] \cup since[w]
  /\ \A w \in Locking : mine[w] \in toLock[w] \cup kept[w]
  /\ \A w \in Locking \ late : Cardinality(since[w]) + Cardinality(before[w]) <= Cardinality(Worker) - 1
  /\ Cardinality(extra) + Cardinality(late) <= Cardinality(Worker) - 1
  /\ Cardinality(Active \ extra) <= limit + 1

MineKnown == \A w \in Worker : wpc[w] # "idle" => mine[w] \in Session

Bounded ==
  limit # -1 =>
    \E before \in [Worker -> SUBSET Worker], since \in [Worker -> SUBSET Session],
       late \in SUBSET Worker, extra \in SUBSET Session :
      Overlap(before, since, late, extra)

SessionInv == SessionTypeOK /\ MineKnown /\ Bounded

LEMMA LimitType == SessionTypeOK /\ limit # -1 => limit \in Nat
  BY SessionAssumption DEF SessionTypeOK

LEMMA SessionInitial == SessionInit => SessionInv
<1> SUFFICES ASSUME SessionInit PROVE SessionInv
  OBVIOUS
<1>1. SessionTypeOK /\ MineKnown
  BY SessionAssumption DEF SessionInit, SessionTypeOK, MineKnown
<1>2. ASSUME limit # -1
      PROVE  Overlap([w \in Worker |-> {}], [w \in Worker |-> {}], {}, {})
  <2>1. Locking = {}
    BY DEF Locking, SessionInit
  <2>2. Active = {} /\ Active \ {} = {}
    BY DEF Active, SessionInit
  <2>3. Cardinality({}) = 0 /\ limit \in Nat
    BY <1>1, <1>2, LimitType, FS_EmptySet
  <2>4. Cardinality(Worker) \in Nat /\ Cardinality(Worker) # 0
    BY SessionAssumption, SessionSets, FS_EmptySet
  <2> QED
    BY <2>1, <2>2, <2>3, <2>4 DEF Overlap
<1>3. /\ [w \in Worker |-> {}] \in [Worker -> SUBSET Worker]
      /\ [w \in Worker |-> {}] \in [Worker -> SUBSET Session]
  OBVIOUS
<1> QED
  BY <1>1, <1>2, <1>3 DEF SessionInv, Bounded

LEMMA SessionTypes ==
  SessionTypeOK /\ MineKnown /\ [SessionNext]_sessionVars => SessionTypeOK' /\ MineKnown'
<1> SUFFICES ASSUME SessionTypeOK, MineKnown, [SessionNext]_sessionVars
             PROVE  SessionTypeOK' /\ MineKnown'
  OBVIOUS
<1>1. ASSUME NEW w \in Worker, Login(w) PROVE SessionTypeOK' /\ MineKnown'
  <2>1. count + 1 \in Session /\ count' \in 0 .. MaxSession
    BY <1>1, SessionAssumption DEF Login, SessionTypeOK, Session
  <2> QED
    BY <1>1, <2>1 DEF Login, SessionTypeOK, MineKnown
<1>2. ASSUME NEW w \in Worker, Select(w) PROVE SessionTypeOK' /\ MineKnown'
  <2>1. Snapshot(w) \in SUBSET Session
    BY <1>2 DEF Select, Snapshot, Active, SessionTypeOK, MineKnown
  <2> QED
    BY <1>2, <2>1 DEF Select, SessionTypeOK, MineKnown
<1>3. ASSUME NEW w \in Worker, LockRow(w) PROVE SessionTypeOK' /\ MineKnown'
  <2>1. PICK s \in NextToLock(w) :
          /\ ~LockedByOther(w, s)
          /\ toLock' = [toLock EXCEPT ![w] = @ \ {s}]
          /\ kept' = [kept EXCEPT ![w] = IF s \in members \cup {mine[w]} THEN @ \cup {s} ELSE @]
    BY <1>3 DEF LockRow
  <2>2. s \in toLock[w] /\ s \in Session
    BY DEF NextToLock, SessionTypeOK
  <2>3. UNCHANGED <<limit, count, members, expired, wpc, mine>>
    BY <1>3 DEF LockRow
  <2>4. /\ kept' \in [Worker -> SUBSET Session] /\ toLock' \in [Worker -> SUBSET Session]
        /\ kept'[w] \subseteq kept[w] \cup {s} /\ \A v \in Worker \ {w} : kept'[v] = kept[v]
    BY <2>1, <2>2 DEF SessionTypeOK
  <2>5. \A v \in Worker \ {w} : s \notin kept[v]
    BY <2>1 DEF LockedByOther
  <2>6. \A u, v \in Worker : u # v => kept'[u] \cap kept'[v] = {}
    <3> SUFFICES ASSUME NEW u \in Worker, NEW v \in Worker, u # v PROVE kept'[u] \cap kept'[v] = {}
      OBVIOUS
    <3>1. kept[u] \cap kept[v] = {}
      BY DEF SessionTypeOK
    <3> QED
      BY <2>4, <2>5, <3>1
  <2> QED
    BY <2>3, <2>4, <2>6 DEF SessionTypeOK, MineKnown
<1>4. ASSUME NEW w \in Worker, EvictAndCommit(w) \/ CommitUnlimited(w) PROVE SessionTypeOK' /\ MineKnown'
  <2>1. mine[w] \in Session
    BY <1>4 DEF EvictAndCommit, CommitUnlimited, MineKnown
  <2>2. members' \in SUBSET Session
    BY <1>4, <2>1 DEF EvictAndCommit, CommitUnlimited, SessionTypeOK
  <2>3. Finish(w)
    BY <1>4 DEF EvictAndCommit, CommitUnlimited
  <2> QED
    BY <2>2, <2>3 DEF Finish, SessionTypeOK, MineKnown
<1>5. ASSUME NEW s \in Session, Expire(s) PROVE SessionTypeOK' /\ MineKnown'
  BY <1>5 DEF Expire, SessionTypeOK, MineKnown
<1>6. ASSUME NEW s \in Session, Logout(s) PROVE SessionTypeOK' /\ MineKnown'
  BY <1>6 DEF Logout, SessionTypeOK, MineKnown
<1>7. ASSUME UNCHANGED sessionVars PROVE SessionTypeOK' /\ MineKnown'
  BY <1>7 DEF sessionVars, SessionTypeOK, MineKnown
<1> QED
  BY <1>1, <1>2, <1>3, <1>4, <1>5, <1>6, <1>7 DEF SessionNext, LoginStep

(* Fewer active sessions and the same logins under way: the same overlap. *)
LEMMA OverlapKept ==
  ASSUME SessionTypeOK, limit \in Nat,
         NEW before \in [Worker -> SUBSET Worker], NEW since \in [Worker -> SUBSET Session],
         NEW late \in SUBSET Worker, NEW extra \in SUBSET Session,
         Overlap(before, since, late, extra),
         Locking' = Locking, limit' = limit, Active' \subseteq Active,
         \A w \in Locking : Active' \subseteq toLock'[w] \cup kept'[w] \cup since[w],
         \A w \in Locking : mine'[w] \in toLock'[w] \cup kept'[w]
  PROVE  Overlap(before, since, late, extra)'
<1>1. Active \ extra \in SUBSET Session /\ Active' \ extra \in SUBSET (Active \ extra)
  BY DEF Active, SessionTypeOK
<1>2. /\ Cardinality(Active' \ extra) <= Cardinality(Active \ extra)
      /\ Cardinality(Active' \ extra) \in Nat /\ Cardinality(Active \ extra) \in Nat
  <2>1. IsFiniteSet(Active \ extra) /\ Active' \ extra \in SUBSET Session
    BY <1>1, SessionSets
  <2> QED
    BY <1>1, <2>1, SessionSets, FS_Subset
<1>3. Cardinality(Active' \ extra) <= limit' + 1
  BY <1>2 DEF Overlap
<1> QED
  BY <1>3 DEF Overlap

(* A query that begins sees what is active, and every other under way. *)
LEMMA OverlapSelect ==
  ASSUME SessionTypeOK, MineKnown, limit \in Nat,
         NEW before \in [Worker -> SUBSET Worker], NEW since \in [Worker -> SUBSET Session],
         NEW late \in SUBSET Worker, NEW extra \in SUBSET Session,
         Overlap(before, since, late, extra),
         NEW w \in Worker, Select(w),
         NEW seen, seen = [before EXCEPT ![w] = Locking],
         NEW unseen, unseen = [since EXCEPT ![w] = {}]
  PROVE  /\ seen \in [Worker -> SUBSET Worker] /\ unseen \in [Worker -> SUBSET Session]
         /\ Overlap(seen, unseen, late, extra)'
<1>1. /\ w \notin Locking /\ Locking' = Locking \cup {w} /\ Locking \in SUBSET Worker
      /\ limit' = limit /\ Active' = Active
      /\ toLock'[w] = Active \cup {mine[w]} /\ mine' = mine /\ kept' = kept
      /\ \A v \in Worker \ {w} : toLock'[v] = toLock[v]
  BY DEF Select, Snapshot, Locking, Active, SessionTypeOK
<1>2. /\ seen \in [Worker -> SUBSET Worker] /\ unseen \in [Worker -> SUBSET Session]
      /\ seen[w] = Locking /\ unseen[w] = {}
      /\ \A v \in Worker \ {w} : seen[v] = before[v] /\ unseen[v] = since[v]
  BY <1>1
<1>3. \A v \in Locking : v # w /\ v \in Worker /\ seen[v] = before[v] /\ unseen[v] = since[v]
  BY <1>1, <1>2
<1>4. Cardinality(Locking) <= Cardinality(Worker) - 1 /\ Cardinality({}) = 0 /\ Cardinality(Locking) \in Nat
  <2>1. Locking \in SUBSET (Worker \ {w})
    BY <1>1
  <2>2. IsFiniteSet(Worker \ {w}) /\ Cardinality(Worker \ {w}) = Cardinality(Worker) - 1
    BY SessionAssumption, FS_RemoveElement
  <2>3. Cardinality(Locking) <= Cardinality(Worker \ {w})
    BY <2>1, <2>2, FS_Subset
  <2> QED
    BY <1>1, <2>2, <2>3, FS_EmptySet, SessionSets
<1>5. late \subseteq Locking' /\ \A v \in late : seen[v] \subseteq late
  BY <1>1, <1>3 DEF Overlap
<1>6. \A v \in Locking' : v \notin seen[v] /\ seen[v] \subseteq Locking'
  BY <1>1, <1>2, <1>3 DEF Overlap
<1>7. \A u, v \in Locking' : u # v => u \in seen[v] \/ v \in seen[u]
  BY <1>1, <1>2, <1>3 DEF Overlap
<1>8. \A v \in Locking' : \A u \in seen[v] : seen[u] \subseteq seen[v]
  BY <1>1, <1>2, <1>3 DEF Overlap
<1>9. \A v \in Locking' : Active' \subseteq toLock'[v] \cup kept'[v] \cup unseen[v]
  BY <1>1, <1>2, <1>3 DEF Overlap
<1>10. \A v \in Locking' : mine'[v] \in toLock'[v] \cup kept'[v]
  BY <1>1, <1>3 DEF Overlap
<1>11. \A v \in Locking' \ late : Cardinality(unseen[v]) + Cardinality(seen[v]) <= Cardinality(Worker) - 1
  <2>1. Cardinality(unseen[w]) + Cardinality(seen[w]) <= Cardinality(Worker) - 1
    BY <1>2, <1>4, SessionSets
  <2>2. \A v \in Locking \ late : Cardinality(unseen[v]) + Cardinality(seen[v]) <= Cardinality(Worker) - 1
    BY <1>3 DEF Overlap
  <2> QED
    BY <1>1, <2>1, <2>2
<1>12. /\ Cardinality(extra) + Cardinality(late) <= Cardinality(Worker) - 1
       /\ Cardinality(Active' \ extra) <= limit' + 1
  BY <1>1 DEF Overlap
<1> QED
  BY <1>2, <1>5, <1>6, <1>7, <1>8, <1>9, <1>10, <1>11, <1>12 DEF Overlap

(* What a commit adds, and what it leaves of the rows it has locked. *)
LEMMA CommitEffect ==
  ASSUME SessionTypeOK, MineKnown, NEW v \in Worker, EvictAndCommit(v)
  PROVE  /\ v \in Locking /\ Locking' = Locking \ {v} /\ toLock[v] = {} /\ limit' = limit
         /\ mine[v] \in Session
         /\ Active' \subseteq (Active \cup {mine[v]}) \ OverLimit(kept[v])
         /\ \A w \in Worker \ {v} : toLock'[w] = toLock[w] /\ kept'[w] = kept[w] /\ mine'[w] = mine[w]
<1>1. /\ wpc[v] = "locking" /\ toLock[v] = {}
      /\ members' = (members \cup {mine[v]}) \ OverLimit(kept[v])
      /\ wpc' = [wpc EXCEPT ![v] = "idle"] /\ mine' = [mine EXCEPT ![v] = 0]
      /\ kept' = [kept EXCEPT ![v] = {}] /\ UNCHANGED <<limit, count, expired, toLock>>
  BY DEF EvictAndCommit, Finish
<1>2. v \in Locking /\ Locking' = Locking \ {v}
  BY <1>1 DEF Locking, SessionTypeOK
<1>3. mine[v] \in Session
  BY <1>1 DEF MineKnown
<1>4. Active' \subseteq (Active \cup {mine[v]}) \ OverLimit(kept[v])
  BY <1>1 DEF Active
<1> QED
  BY <1>1, <1>2, <1>3, <1>4 DEF SessionTypeOK

(* What the others make of a commit: one more session since, one less that *)
(* was before.                                                             *)
AfterCommit(v, before, since, seen, unseen) ==
  \A w \in Worker : seen[w] = before[w] \ {v} /\ unseen[w] = since[w] \cup {mine[v]}

LEMMA OverlapOthers ==
  ASSUME SessionTypeOK, MineKnown, limit \in Nat,
         NEW before \in [Worker -> SUBSET Worker], NEW since \in [Worker -> SUBSET Session],
         NEW late \in SUBSET Worker, NEW extra \in SUBSET Session,
         Overlap(before, since, late, extra),
         NEW v \in Worker, EvictAndCommit(v),
         NEW seen \in [Worker -> SUBSET Worker], NEW unseen \in [Worker -> SUBSET Session],
         AfterCommit(v, before, since, seen, unseen)
  PROVE  /\ \A w \in Locking' : w \notin seen[w] /\ seen[w] \subseteq Locking'
         /\ \A u, w \in Locking' : u # w => u \in seen[w] \/ w \in seen[u]
         /\ \A w \in Locking' : \A u \in seen[w] : seen[u] \subseteq seen[w]
         /\ \A w \in Locking' : Active' \subseteq toLock'[w] \cup kept'[w] \cup unseen[w]
         /\ \A w \in Locking' : mine'[w] \in toLock'[w] \cup kept'[w]
         /\ \A w \in Locking \ late :
              v \in before[w] =>
                Cardinality(unseen[w]) + Cardinality(seen[w]) <= Cardinality(Worker) - 1
<1>1. /\ v \in Locking /\ Locking' = Locking \ {v} /\ mine[v] \in Session
      /\ Active' \subseteq Active \cup {mine[v]}
      /\ \A w \in Worker \ {v} : toLock'[w] = toLock[w] /\ kept'[w] = kept[w] /\ mine'[w] = mine[w]
  BY CommitEffect
<1>2. \A w \in Worker : seen[w] = before[w] \ {v} /\ unseen[w] = since[w] \cup {mine[v]}
  BY DEF AfterCommit
<1>3. \A w \in Locking' : w \in Worker /\ w # v /\ w \in Locking
  BY <1>1 DEF Locking
<1>4. \A w \in Locking' : w \notin seen[w] /\ seen[w] \subseteq Locking'
  BY <1>1, <1>2, <1>3 DEF Overlap
<1>5. \A u, w \in Locking' : u # w => u \in seen[w] \/ w \in seen[u]
  BY <1>1, <1>2, <1>3 DEF Overlap
<1>6. \A w \in Locking' : \A u \in seen[w] : seen[u] \subseteq seen[w]
  <2> SUFFICES ASSUME NEW w \in Locking', NEW u \in seen[w] PROVE seen[u] \subseteq seen[w]
    OBVIOUS
  <2>1. u \in before[w] /\ u \in Worker /\ w \in Worker /\ w \in Locking
    BY <1>2, <1>3
  <2>2. before[u] \subseteq before[w]
    BY <2>1 DEF Overlap
  <2> QED
    BY <1>2, <2>1, <2>2
<1>7. \A w \in Locking' : Active' \subseteq toLock'[w] \cup kept'[w] \cup unseen[w]
  <2> SUFFICES ASSUME NEW w \in Locking' PROVE Active' \subseteq toLock'[w] \cup kept'[w] \cup unseen[w]
    OBVIOUS
  <2>1. /\ Active \subseteq toLock[w] \cup kept[w] \cup since[w]
        /\ toLock'[w] = toLock[w] /\ kept'[w] = kept[w] /\ unseen[w] = since[w] \cup {mine[v]}
    BY <1>1, <1>2, <1>3 DEF Overlap
  <2> QED
    BY <1>1, <2>1
<1>8. \A w \in Locking' : mine'[w] \in toLock'[w] \cup kept'[w]
  BY <1>1, <1>3 DEF Overlap
<1>9. ASSUME NEW w \in Locking \ late, v \in before[w]
      PROVE  Cardinality(unseen[w]) + Cardinality(seen[w]) <= Cardinality(Worker) - 1
  <2>1. w \in Worker
    BY DEF Locking
  <2>2. /\ IsFiniteSet(since[w]) /\ IsFiniteSet(before[w]) /\ Cardinality(Worker) \in Nat
        /\ Cardinality(since[w]) \in Nat /\ Cardinality(before[w]) \in Nat
    BY <2>1, SessionSets
  <2>3. Cardinality(unseen[w]) <= Cardinality(since[w]) + 1 /\ Cardinality(unseen[w]) \in Nat
    <3>1. unseen[w] = since[w] \cup {mine[v]}
      BY <1>2, <2>1
    <3>2. Cardinality(since[w] \cup {mine[v]}) =
            IF mine[v] \in since[w] THEN Cardinality(since[w]) ELSE Cardinality(since[w]) + 1
      BY <2>2, FS_AddElement, Zenon
    <3>3. Cardinality(unseen[w]) = Cardinality(since[w]) \/ Cardinality(unseen[w]) = Cardinality(since[w]) + 1
      BY <3>1, <3>2, Zenon
    <3> QED
      BY <2>2, <3>3
  <2>4. Cardinality(seen[w]) = Cardinality(before[w]) - 1
    <3>1. seen[w] = before[w] \ {v}
      BY <1>2, <2>1
    <3>2. Cardinality(before[w] \ {v}) =
            IF v \in before[w] THEN Cardinality(before[w]) - 1 ELSE Cardinality(before[w])
      BY <2>2, FS_RemoveElement, Zenon
    <3> QED
      BY <1>9, <3>1, <3>2, Zenon
  <2>5. Cardinality(since[w]) + Cardinality(before[w]) <= Cardinality(Worker) - 1
    BY <1>9 DEF Overlap
  <2> QED
    BY <2>2, <2>3, <2>4, <2>5
<1> QED
  BY <1>4, <1>5, <1>6, <1>7, <1>8, <1>9

(* A late transaction adds its session to the extra ones; any other leaves *)
(* no extra ones but those its query could not see.                        *)
LEMMA OverlapCommit ==
  ASSUME SessionTypeOK, MineKnown, limit \in Nat,
         NEW before \in [Worker -> SUBSET Worker], NEW since \in [Worker -> SUBSET Session],
         NEW late \in SUBSET Worker, NEW extra \in SUBSET Session,
         Overlap(before, since, late, extra),
         NEW v \in Worker, EvictAndCommit(v)
  PROVE  (\E b \in [Worker -> SUBSET Worker], s \in [Worker -> SUBSET Session],
             l \in SUBSET Worker, x \in SUBSET Session : Overlap(b, s, l, x))'
<1>1. PICK seen \in [Worker -> SUBSET Worker] : \A w \in Worker : seen[w] = before[w] \ {v}
  <2>1. [w \in Worker |-> before[w] \ {v}] \in [Worker -> SUBSET Worker]
    OBVIOUS
  <2> QED
    BY <2>1
<1>2. PICK unseen \in [Worker -> SUBSET Session] : \A w \in Worker : unseen[w] = since[w] \cup {mine[v]}
  <2>1. mine[v] \in Session
    BY CommitEffect
  <2>2. [w \in Worker |-> since[w] \cup {mine[v]}] \in [Worker -> SUBSET Session]
    BY <2>1
  <2> QED
    BY <2>2
<1>3. AfterCommit(v, before, since, seen, unseen)
  BY <1>1, <1>2 DEF AfterCommit
<1>4. /\ \A w \in Locking' : w \notin seen[w] /\ seen[w] \subseteq Locking'
      /\ \A u, w \in Locking' : u # w => u \in seen[w] \/ w \in seen[u]
      /\ \A w \in Locking' : \A u \in seen[w] : seen[u] \subseteq seen[w]
      /\ \A w \in Locking' : Active' \subseteq toLock'[w] \cup kept'[w] \cup unseen[w]
      /\ \A w \in Locking' : mine'[w] \in toLock'[w] \cup kept'[w]
      /\ \A w \in Locking \ late :
           v \in before[w] => Cardinality(unseen[w]) + Cardinality(seen[w]) <= Cardinality(Worker) - 1
  BY <1>3, OverlapOthers
<1>5. /\ v \in Locking /\ Locking' = Locking \ {v} /\ toLock[v] = {} /\ limit' = limit /\ mine[v] \in Session
      /\ Active' \subseteq (Active \cup {mine[v]}) \ OverLimit(kept[v])
  BY CommitEffect
<1>6. \A w \in Worker : seen[w] = before[w] \ {v}
  BY <1>1
<1>7. /\ \A u, w \in Locking : u # w => u \in before[w] \/ w \in before[u]
      /\ \A w \in Locking : \A u \in before[w] : before[u] \subseteq before[w]
      /\ \A w \in Locking : w \notin before[w] /\ before[w] \subseteq Locking
      /\ late \subseteq Locking /\ \A w \in late : before[w] \subseteq late
      /\ Cardinality(extra) + Cardinality(late) <= Cardinality(Worker) - 1
      /\ Cardinality(Active \ extra) <= limit + 1
  BY DEF Overlap
<1>8. Locking \in SUBSET Worker /\ Active \in SUBSET Session /\ Active' \in SUBSET Session
  BY <1>5 DEF Locking, Active, SessionTypeOK
<1>9. ASSUME NEW l \in SUBSET Worker, NEW x \in SUBSET Session,
             l \subseteq Locking', \A w \in l : seen[w] \subseteq l,
             \A w \in Locking' \ l : w \in Locking \ late /\ v \in before[w],
             Cardinality(x) + Cardinality(l) <= Cardinality(Worker) - 1,
             Cardinality(Active' \ x) <= limit + 1
      PROVE  Overlap(seen, unseen, l, x)'
  <2>1. \A w \in Locking' \ l : Cardinality(unseen[w]) + Cardinality(seen[w]) <= Cardinality(Worker) - 1
    BY <1>4, <1>9
  <2>2. Cardinality(Active' \ x) <= limit' + 1
    BY <1>5, <1>9
  <2> QED
    BY <1>4, <1>9, <2>1, <2>2 DEF Overlap
<1>10. ASSUME v \in late
       PROVE  \E l \in SUBSET Worker, x \in SUBSET Session : Overlap(seen, unseen, l, x)'
  <2>1. PICK x : x = extra \cup {mine[v]}
    OBVIOUS
  <2>2. x \in SUBSET Session /\ late \ {v} \in SUBSET Worker /\ late \ {v} \subseteq Locking'
    BY <1>5, <1>7, <2>1
  <2>3. \A w \in late \ {v} : seen[w] \subseteq late \ {v}
    BY <1>6, <1>7
  <2>4. ASSUME NEW w \in Locking' \ (late \ {v}) PROVE w \in Locking \ late /\ v \in before[w]
    <3>1. w \in Locking /\ w # v /\ w \notin late
      BY <1>5
    <3>2. w \notin before[v]
      BY <1>7, <1>10, <3>1
    <3> QED
      BY <1>5, <1>7, <3>1, <3>2
  <2>5. Cardinality(x) + Cardinality(late \ {v}) <= Cardinality(Worker) - 1
    <3>1. /\ IsFiniteSet(extra) /\ IsFiniteSet(late) /\ Cardinality(Worker) \in Nat
          /\ Cardinality(extra) \in Nat /\ Cardinality(late) \in Nat
      BY SessionSets
    <3>2. Cardinality(late \ {v}) = IF v \in late THEN Cardinality(late) - 1 ELSE Cardinality(late)
      BY <3>1, FS_RemoveElement, Zenon
    <3>3. Cardinality(extra \cup {mine[v]}) =
            IF mine[v] \in extra THEN Cardinality(extra) ELSE Cardinality(extra) + 1
      BY <3>1, FS_AddElement, Zenon
    <3>4. /\ Cardinality(late \ {v}) = Cardinality(late) - 1
          /\ Cardinality(x) = Cardinality(extra) \/ Cardinality(x) = Cardinality(extra) + 1
      BY <1>10, <2>1, <3>2, <3>3, Zenon
    <3> QED
      BY <1>7, <3>1, <3>4
  <2>6. Cardinality(Active' \ x) <= limit + 1
    <3>1. Active' \ x \in SUBSET (Active \ extra) /\ Active \ extra \in SUBSET Session
      BY <1>5, <1>8, <2>1
    <3>2. IsFiniteSet(Active \ extra) /\ Active' \ x \in SUBSET Session
      BY <3>1, SessionSets
    <3>3. Cardinality(Active' \ x) <= Cardinality(Active \ extra)
      BY <3>1, <3>2, FS_Subset, Zenon
    <3>4. Cardinality(Active' \ x) \in Nat /\ Cardinality(Active \ extra) \in Nat
      BY <3>1, <3>2, SessionSets, Zenon
    <3> QED
      BY <1>7, <3>3, <3>4
  <2>7. Overlap(seen, unseen, late \ {v}, x)'
    BY <1>9, <2>2, <2>3, <2>4, <2>5, <2>6
  <2> QED
    BY <2>2, <2>7
<1>11. ASSUME v \notin late
       PROVE  \E l \in SUBSET Worker, x \in SUBSET Session : Overlap(seen, unseen, l, x)'
  <2>1. /\ since[v] \in SUBSET Session /\ before[v] \in SUBSET Worker /\ before[v] \subseteq Locking'
        /\ v \notin before[v]
    BY <1>5, <1>7
  <2>2. \A w \in before[v] : seen[w] \subseteq before[v]
    BY <1>5, <1>6, <1>7, <2>1
  <2>3. ASSUME NEW w \in Locking' \ before[v] PROVE w \in Locking \ late /\ v \in before[w]
    <3>1. w \in Locking /\ w # v /\ v \in before[w]
      BY <1>5, <1>7
    <3>2. w \notin late
      BY <1>7, <1>11, <3>1
    <3> QED
      BY <3>1, <3>2
  <2>4. Cardinality(since[v]) + Cardinality(before[v]) <= Cardinality(Worker) - 1
    BY <1>5, <1>11 DEF Overlap
  <2>5. Cardinality(Active' \ since[v]) <= limit + 1
    <3>1. Active \subseteq kept[v] \cup since[v] /\ mine[v] \in kept[v]
      BY <1>5 DEF Overlap
    <3>2. kept[v] \in SUBSET Session
      BY DEF SessionTypeOK
    <3>3. Active' \ since[v] \in SUBSET (kept[v] \ OverLimit(kept[v]))
      BY <1>5, <3>1
    <3>4. kept[v] \ OverLimit(kept[v]) \in SUBSET Session /\ Active' \ since[v] \in SUBSET Session
      BY <1>8, <3>2
    <3>5. Cardinality(Active' \ since[v]) <= Cardinality(kept[v] \ OverLimit(kept[v]))
      BY <3>3, <3>4, SessionSets, FS_Subset, Zenon
    <3>6. Cardinality(Active' \ since[v]) \in Nat /\ Cardinality(kept[v] \ OverLimit(kept[v])) \in Nat
      BY <3>4, SessionSets, Zenon
    <3>7. Cardinality(kept[v] \ OverLimit(kept[v])) <= limit + 1
      BY <3>2, NewestLeft
    <3> QED
      BY <3>5, <3>6, <3>7
  <2>6. Overlap(seen, unseen, before[v], since[v])'
    BY <1>9, <2>1, <2>2, <2>3, <2>4, <2>5
  <2> QED
    BY <2>1, <2>6
<1> QED
  BY <1>10, <1>11

LEMMA SessionStep == SessionInv /\ [SessionNext]_sessionVars => SessionInv'
<1> SUFFICES ASSUME SessionInv, [SessionNext]_sessionVars PROVE SessionInv'
  OBVIOUS
<1>1. SessionTypeOK /\ MineKnown /\ Bounded
  BY DEF SessionInv
<1>2. SUFFICES Bounded'
  BY <1>1, SessionTypes DEF SessionInv
<1>3. SUFFICES ASSUME limit' # -1
               PROVE  (\E b \in [Worker -> SUBSET Worker], s \in [Worker -> SUBSET Session],
                          l \in SUBSET Worker, x \in SUBSET Session : Overlap(b, s, l, x))'
  BY DEF Bounded
<1>4. limit' = limit
  BY DEF SessionNext, sessionVars, LoginStep, Login, Select, LockRow, EvictAndCommit, CommitUnlimited,
         Finish, Expire, Logout
<1>5. limit \in Nat
  BY <1>1, <1>3, <1>4, LimitType
<1>6. PICK before \in [Worker -> SUBSET Worker], since \in [Worker -> SUBSET Session],
           late \in SUBSET Worker, extra \in SUBSET Session : Overlap(before, since, late, extra)
  BY <1>1, <1>3, <1>4 DEF Bounded
<1>7. /\ \A w \in Locking : Active \subseteq toLock[w] \cup kept[w] \cup since[w]
      /\ \A w \in Locking : mine[w] \in toLock[w] \cup kept[w]
  BY <1>6 DEF Overlap
<1>8. SUFFICES (\E w \in Worker : Select(w) \/ EvictAndCommit(w)) \/ Overlap(before, since, late, extra)'
  <2>1. ASSUME NEW w \in Worker, Select(w)
        PROVE  (\E b \in [Worker -> SUBSET Worker], s \in [Worker -> SUBSET Session],
                   l \in SUBSET Worker, x \in SUBSET Session : Overlap(b, s, l, x))'
    <3>1. PICK seen : seen = [before EXCEPT ![w] = Locking]
      OBVIOUS
    <3>2. PICK unseen : unseen = [since EXCEPT ![w] = {}]
      OBVIOUS
    <3>3. /\ seen \in [Worker -> SUBSET Worker] /\ unseen \in [Worker -> SUBSET Session]
          /\ Overlap(seen, unseen, late, extra)'
      BY <1>1, <1>5, <1>6, <2>1, <3>1, <3>2, OverlapSelect
    <3> QED
      BY <3>3
  <2>2. ASSUME NEW w \in Worker, EvictAndCommit(w)
        PROVE  (\E b \in [Worker -> SUBSET Worker], s \in [Worker -> SUBSET Session],
                   l \in SUBSET Worker, x \in SUBSET Session : Overlap(b, s, l, x))'
    BY <1>1, <1>5, <1>6, <2>2, OverlapCommit
  <2> QED
    BY <1>6, <2>1, <2>2
<1>9. ASSUME NEW w \in Worker, Login(w) PROVE Overlap(before, since, late, extra)'
  <2>1. /\ Locking' = Locking /\ Active' = Active /\ toLock' = toLock /\ kept' = kept
        /\ \A v \in Locking : mine'[v] = mine[v]
    BY <1>1, <1>9 DEF Login, Locking, Active, SessionTypeOK
  <2> QED
    BY <1>1, <1>4, <1>5, <1>6, <1>7, <2>1, OverlapKept
<1>10. ASSUME NEW w \in Worker, LockRow(w) PROVE Overlap(before, since, late, extra)'
  <2>1. PICK s \in NextToLock(w) :
          /\ toLock' = [toLock EXCEPT ![w] = @ \ {s}]
          /\ kept' = [kept EXCEPT ![w] = IF s \in members \cup {mine[w]} THEN @ \cup {s} ELSE @]
    BY <1>10 DEF LockRow
  <2>2. UNCHANGED <<limit, count, members, expired, wpc, mine>>
    BY <1>10 DEF LockRow
  <2>3. Locking' = Locking /\ Active' = Active /\ Active \subseteq members
    BY <2>2 DEF Locking, Active
  <2>4. /\ \A v \in Worker \ {w} : toLock'[v] = toLock[v] /\ kept'[v] = kept[v]
        /\ toLock'[w] = toLock[w] \ {s}
        /\ kept'[w] = IF s \in members \cup {mine[w]} THEN kept[w] \cup {s} ELSE kept[w]
    BY <1>1, <2>1 DEF SessionTypeOK
  <2>5. \A v \in Locking : v \in Worker
    BY DEF Locking
  <2>6. \A v \in Locking : Active' \subseteq toLock'[v] \cup kept'[v] \cup since[v]
    BY <1>7, <2>3, <2>4, <2>5
  <2>7. \A v \in Locking : mine'[v] \in toLock'[v] \cup kept'[v]
    BY <1>7, <2>2, <2>4, <2>5
  <2> QED
    BY <1>1, <1>4, <1>5, <1>6, <2>3, <2>6, <2>7, OverlapKept
<1>11. ASSUME NEW w \in Worker, CommitUnlimited(w) PROVE FALSE
  BY <1>3, <1>4, <1>11 DEF CommitUnlimited
<1>12. ASSUME NEW s \in Session, Expire(s) \/ Logout(s) PROVE Overlap(before, since, late, extra)'
  <2>1. /\ Locking' = Locking /\ Active' \subseteq Active /\ toLock' = toLock /\ kept' = kept
        /\ mine' = mine
    BY <1>12 DEF Expire, Logout, Locking, Active
  <2> QED
    BY <1>1, <1>4, <1>5, <1>6, <1>7, <2>1, OverlapKept
<1>13. ASSUME UNCHANGED sessionVars PROVE Overlap(before, since, late, extra)'
  <2>1. Locking' = Locking /\ Active' = Active /\ toLock' = toLock /\ kept' = kept /\ mine' = mine
    BY <1>13 DEF sessionVars, Locking, Active
  <2> QED
    BY <1>1, <1>4, <1>5, <1>6, <1>7, <2>1, OverlapKept
<1> QED
  BY <1>9, <1>10, <1>11, <1>12, <1>13 DEF SessionNext, LoginStep

LEMMA SessionInvariant == SessionSpec => []SessionInv
  BY SessionInitial, SessionStep, PTL DEF SessionSpec

(***************************************************************************)
(* Types of the logins under way; no row is locked by two of them          *)
(* (select_for_update).                                                    *)
(***************************************************************************)
THEOREM SessionTypeCorrect == SessionSpec => []SessionTypeOK
<1>1. SessionInv => SessionTypeOK
  BY DEF SessionInv
<1> QED
  BY <1>1, SessionInvariant, PTL

(***************************************************************************)
(* Overlapping logins exceed MAX_EXTRA_SESSIONS_PER_USER by at most one    *)
(* session per additional worker, however many logins there are and        *)
(* however they overlap (get_active_memberships_over_limit), for any       *)
(* number of workers and any limit.                                        *)
(***************************************************************************)
THEOREM SessionExcessBounded == SessionSpec => []ExcessBounded
<1>1. SessionInv => ExcessBounded
  <2> SUFFICES ASSUME SessionInv, limit # -1
               PROVE  Cardinality(Active) <= limit + Cardinality(Worker)
    BY DEF ExcessBounded
  <2>1. PICK before \in [Worker -> SUBSET Worker], since \in [Worker -> SUBSET Session],
             late \in SUBSET Worker, extra \in SUBSET Session : Overlap(before, since, late, extra)
    BY DEF SessionInv, Bounded
  <2>2. /\ Cardinality(extra) + Cardinality(late) <= Cardinality(Worker) - 1
        /\ Cardinality(Active \ extra) <= limit + 1
    BY <2>1 DEF Overlap
  <2>3. Active \in SUBSET Session /\ Active \ extra \in SUBSET Session /\ Active \cap extra \in SUBSET Session
    BY DEF SessionInv, SessionTypeOK, Active
  <2>4. /\ IsFiniteSet(Active) /\ IsFiniteSet(extra)
        /\ Cardinality(Active) \in Nat /\ Cardinality(extra) \in Nat /\ Cardinality(late) \in Nat
        /\ Cardinality(Active \ extra) \in Nat /\ Cardinality(Active \cap extra) \in Nat
        /\ Cardinality(Worker) \in Nat
    BY <2>3, SessionSets
  <2>5. Cardinality(Active \ extra) = Cardinality(Active) - Cardinality(Active \cap extra)
    BY <2>4, FS_Difference, Zenon
  <2>6. Cardinality(Active \cap extra) <= Cardinality(extra)
    <3>1. Active \cap extra \in SUBSET extra
      OBVIOUS
    <3> QED
      BY <2>4, <3>1, FS_Subset, Zenon
  <2>7. limit \in Nat
    BY LimitType DEF SessionInv
  <2> QED
    BY <2>2, <2>4, <2>5, <2>6, <2>7
<1> QED
  BY <1>1, SessionInvariant, PTL
=============================================================================
