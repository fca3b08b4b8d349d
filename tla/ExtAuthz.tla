------------------------------ MODULE ExtAuthz ------------------------------
(***************************************************************************)
(* The authorization server that Envoy asks about every request            *)
(* (proxy/control_plane.py) and the cache of the tokens it issues          *)
(* (utils/jwt_cache.py, utils/jwt_token.py), with what drops a token from  *)
(* the cache: a save of the user (models/user.py), a change of the user's  *)
(* role assignments (utils/rbac.py) and a logout (signals/user.py).        *)
(*                                                                         *)
(* One unmanaged user.  Time is counted in ticks, TicksPerSecond to a      *)
(* second.  A token is the user's fields and roles it was made from, and   *)
(* its expiration time.                                                    *)
(***************************************************************************)
EXTENDS Integers, FiniteSets

CONSTANTS
  Threads,        \* threads of the gRPC server
  Savers,         \* web workers that may save the user
  NoValue,        \* no change of roles under way
  Values,         \* what the user's fields, and the user's roles, may be
  Requests,       \* the requests that are sent
  TicksPerSecond,
  Expirations,    \* values of gateway_access_token_expiration, in seconds
  Buffer,         \* jwt_expiration_buffer_in_seconds
  MaxDelay,       \* bound: ticks that one check may take
  MaxTime,        \* bound: ticks
  MaxChanges,     \* bound: saves and changes of roles
  MaxSettings     \* bound: changes of the expiration preference

Credentials == {"session", "service", "narrow", "bad_basic", "bad", "csrf", "anonymous"}

AllRequests ==
  [auth_none : BOOLEAN, oidc_path : BOOLEAN, internal : BOOLEAN, gateway_path : BOOLEAN,
   reject_basic : BOOLEAN, credential : Credentials]

ASSUME ExtAuthzAssumption ==
  /\ Requests \subseteq AllRequests /\ Requests # {}
  /\ TicksPerSecond \in Nat \ {0} /\ MaxDelay \in Nat
  /\ Expirations \subseteq Nat /\ Expirations # {} /\ Buffer \in Nat
  /\ NoValue \notin Values
  /\ MaxTime \in Nat /\ MaxChanges \in Nat /\ MaxSettings \in Nat

VARIABLES
  now,
  user,       \* the user in the database: [fields, roles]
  expiration, \* the preference
  cache,      \* the cached token and until when, or NoEntry
  thread,     \* thread -> what its check has so far
  answer,     \* thread -> its last request and what Envoy was told
  saver,      \* saver -> the instance of the user it holds
  granting,   \* roles that an open transaction is about to commit, or NoValue
  leftAt,     \* when the fields, or roles, last ceased to be a value (for the properties only)
  changes, settings

vars == <<now, user, expiration, cache, thread, answer, saver, granting, leftAt,
          changes, settings>>

NoEntry == [until |-> 0]

Kinds == {"fields", "roles"}

Idle == [step |-> "idle"]

\* The instants at which the cache still answers.
Cached == cache # NoEntry /\ now < cache.until

Init ==
  /\ now = 0
  /\ user \in [Kinds -> Values]
  /\ expiration \in Expirations
  /\ cache = NoEntry
  /\ thread = [t \in Threads |-> Idle]
  /\ answer = [t \in Threads |-> Idle]
  /\ saver = [s \in Savers |-> Idle]
  /\ granting = NoValue
  /\ leftAt = [k \in Kinds |-> [v \in Values |-> 0]]
  /\ changes = 0 /\ settings = 0

----------------------------------------------------------------------------
(* The check.                                                              *)

\* Mutant: the paths of the gateway itself are let through on internal routes.
BypassedInternally(r) == r.auth_none \/ r.oidc_path \/ r.gateway_path

\* Requests that need no authentication at the proxy.
Bypassed(r) == r.auth_none \/ r.oidc_path \/ (~r.internal /\ r.gateway_path)

LoginFails(r) == r.credential \in {"bad_basic", "bad", "anonymous"}

\* What becomes of a request, in the order of the code's early returns: it goes on
\* without a token, is refused, or goes on with the token of its user.
Outcome(r) ==
  IF Bypassed(r) THEN "plain"
  ELSE IF \/ r.credential = "csrf"
          \/ r.credential = "bad_basic" /\ r.reject_basic
          \/ r.internal /\ r.credential # "service"
  THEN "denied"
  ELSE IF (r.internal /\ r.gateway_path) \/ LoginFails(r) THEN "plain"
  ELSE IF r.credential = "narrow" THEN "denied"
  ELSE "token"

Answer(t, r, outcome) ==
  /\ answer' = [answer EXCEPT ![t] = [request |-> r, outcome |-> outcome]]
  /\ thread' = [thread EXCEPT ![t] = Idle]

\* The request is settled without a token.
CheckSettled(t) ==
  /\ thread[t] = Idle
  /\ \E r \in Requests : Outcome(r) # "token" /\ Answer(t, r, Outcome(r))
  /\ UNCHANGED <<now, user, expiration, cache, saver, granting, leftAt, changes, settings>>

\* The user was authenticated and its row read.
CheckUser(t) ==
  /\ thread[t] = Idle
  /\ \E r \in Requests :
       /\ Outcome(r) = "token"
       /\ thread' = [thread EXCEPT ![t] =
            [step |-> "user", request |-> r, start |-> now, fields |-> user["fields"]]]
  /\ UNCHANGED <<now, user, expiration, cache, answer, saver, granting, leftAt, changes, settings>>

\* get_jwt_for_user finds a token.
CacheHit(t) ==
  /\ thread[t].step = "user" /\ Cached
  /\ Answer(t, thread[t].request, "token")
  /\ UNCHANGED <<now, user, expiration, cache, saver, granting, leftAt, changes, settings>>

CacheMiss(t) ==
  /\ thread[t].step = "user" /\ ~Cached
  /\ thread' = [thread EXCEPT ![t].step = "miss"]
  /\ UNCHANGED <<now, user, expiration, cache, answer, saver, granting, leftAt, changes, settings>>

\* The due date is cut to whole seconds in the token.
Due ==
  LET due == now + expiration * TicksPerSecond
  IN  due - (due % TicksPerSecond)

\* create_signed_jwt fixes the due date ...
SetDueDate(t) ==
  /\ thread[t].step = "miss"
  /\ thread' = [thread EXCEPT ![t] =
       [step |-> "due", request |-> @.request, start |-> @.start, fields |-> @.fields,
        exp |-> Due]]
  /\ UNCHANGED <<now, user, expiration, cache, answer, saver, granting, leftAt, changes, settings>>

\* Mutant: the roles of a token that has timed out are used once more.
ReadClaimsReusing(t) ==
  /\ thread[t].step = "due"
  /\ thread' = [thread EXCEPT ![t] =
       [step |-> "signed", request |-> @.request, start |-> @.start,
        token |-> [fields |-> @.fields,
                   roles |-> IF cache = NoEntry THEN user["roles"] ELSE cache.token.roles,
                   exp |-> @.exp]]]
  /\ UNCHANGED <<now, user, expiration, cache, answer, saver, granting, leftAt, changes, settings>>

\* ... and reads the claims.
ReadClaims(t) ==
  /\ thread[t].step = "due"
  /\ thread' = [thread EXCEPT ![t] =
       [step |-> "signed", request |-> @.request, start |-> @.start,
        token |-> [fields |-> @.fields, roles |-> user["roles"], exp |-> @.exp]]]
  /\ UNCHANGED <<now, user, expiration, cache, answer, saver, granting, leftAt, changes, settings>>

\* Mutant: the entry outlives the token by the buffer.
EntryOutliving(token) ==
  [token |-> token, until |-> now + (expiration + Buffer) * TicksPerSecond]

\* The entry that JWTSessionCache.set makes.  A timeout that is not positive leaves none.
Entry(token) ==
  IF expiration > Buffer
  THEN [token |-> token, until |-> now + (expiration - Buffer) * TicksPerSecond]
  ELSE NoEntry

StoreToken(t) ==
  /\ thread[t].step = "signed"
  /\ cache' = Entry(thread[t].token)
  /\ Answer(t, thread[t].request, "token")
  /\ UNCHANGED <<now, user, expiration, saver, granting, leftAt, changes, settings>>

\* An exception on the way: the gRPC call fails.
CheckRaises(t) ==
  /\ thread[t] # Idle
  /\ Answer(t, thread[t].request, "error")
  /\ UNCHANGED <<now, user, expiration, cache, saver, granting, leftAt, changes, settings>>

----------------------------------------------------------------------------
(* Changes of the user.                                                    *)

Update(k, v) ==
  /\ user' = [user EXCEPT ![k] = v]
  /\ leftAt' = IF v = user[k] THEN leftAt ELSE [leftAt EXCEPT ![k][user[k]] = now]

\* An instance remembers the fields it was loaded with.
LoadUser(s) ==
  /\ saver[s] = Idle
  /\ saver' = [saver EXCEPT ![s] = [step |-> "loaded", original |-> user["fields"]]]
  /\ UNCHANGED <<now, user, expiration, cache, thread, answer, granting, leftAt, changes, settings>>

\* User.save drops the token if a field differs from what was loaded ...
SaveUser(s) ==
  /\ saver[s].step = "loaded" /\ changes < MaxChanges
  /\ \E v \in Values :
       /\ cache' = IF v # saver[s].original THEN NoEntry ELSE cache
       /\ saver' = [saver EXCEPT ![s] =
            [step |-> "saving", original |-> @.original, new |-> v]]
  /\ changes' = changes + 1
  /\ UNCHANGED <<now, user, expiration, thread, answer, granting, leftAt, settings>>

\* ... and then writes all fields.  The instance may be saved again.
WriteUser(s) ==
  /\ saver[s].step = "saving"
  /\ Update("fields", saver[s].new)
  /\ saver' = [saver EXCEPT ![s] = [step |-> "loaded", original |-> @.original]]
  /\ UNCHANGED <<now, expiration, cache, thread, answer, granting, changes, settings>>

ReleaseUser(s) ==
  /\ saver[s].step = "loaded"
  /\ saver' = [saver EXCEPT ![s] = Idle]
  /\ UNCHANGED <<now, user, expiration, cache, thread, answer, granting, leftAt, changes, settings>>

\* A role assignment is saved or deleted: the signal drops the token ...
ChangeRoles ==
  /\ granting = NoValue /\ changes < MaxChanges
  /\ granting' \in Values \ {user["roles"]}
  /\ cache' = NoEntry
  /\ changes' = changes + 1
  /\ UNCHANGED <<now, user, expiration, thread, answer, saver, leftAt, settings>>

\* ... and the transaction commits.
CommitRoles ==
  /\ granting # NoValue
  /\ Update("roles", granting)
  /\ granting' = NoValue
  /\ UNCHANGED <<now, expiration, cache, thread, answer, saver, changes, settings>>

LogOut ==
  /\ cache # NoEntry
  /\ cache' = NoEntry
  /\ UNCHANGED <<now, user, expiration, thread, answer, saver, granting, leftAt, changes, settings>>

SetExpiration ==
  /\ settings < MaxSettings
  /\ expiration' \in Expirations \ {expiration}
  /\ settings' = settings + 1
  /\ UNCHANGED <<now, user, cache, thread, answer, saver, granting, leftAt, changes>>

\* Time passes; no check takes longer than MaxDelay.
Tick ==
  /\ now < MaxTime
  /\ \A t \in Threads : thread[t] # Idle => now - thread[t].start < MaxDelay
  /\ now' = now + 1
  /\ UNCHANGED <<user, expiration, cache, thread, answer, saver, granting, leftAt, changes, settings>>

Next ==
  \/ \E t \in Threads :
       \/ CheckSettled(t) \/ CheckUser(t) \/ CacheHit(t) \/ CacheMiss(t)
       \/ SetDueDate(t) \/ ReadClaims(t) \/ StoreToken(t) \/ CheckRaises(t)
  \/ \E s \in Savers : LoadUser(s) \/ SaveUser(s) \/ WriteUser(s) \/ ReleaseUser(s)
  \/ ChangeRoles \/ CommitRoles \/ LogOut \/ SetExpiration \/ Tick

Spec == Init /\ [][Next]_vars

----------------------------------------------------------------------------
(* Properties.                                                             *)

Tokens == [fields : Values, roles : Values, exp : Nat]

\* What a thread has of the check it is in.
Checks ==
  [step : {"user", "miss"}, request : Requests, start : Nat, fields : Values]
    \cup [step : {"due"}, request : Requests, start : Nat, fields : Values, exp : Nat]
    \cup [step : {"signed"}, request : Requests, start : Nat, token : Tokens]

Answers == [request : Requests, outcome : {"plain", "denied", "token", "error"}]

Savings == [step : {"loaded"}, original : Values]
             \cup [step : {"saving"}, original : Values, new : Values]

\* Types; no check has taken longer than MaxDelay.
TypeOK ==
  /\ now \in Nat /\ user \in [Kinds -> Values] /\ expiration \in Expirations
  /\ cache \in [token : Tokens, until : Nat] \cup {NoEntry}
  /\ thread \in [Threads -> Checks \cup {Idle}]
  /\ \A t \in Threads :
       thread[t] # Idle => thread[t].start =< now /\ now =< thread[t].start + MaxDelay
  /\ answer \in [Threads -> Answers \cup {Idle}]
  /\ saver \in [Savers -> Savings \cup {Idle}]
  /\ granting \in Values \cup {NoValue}
  /\ leftAt \in [Kinds -> [Values -> Nat]]
  /\ changes \in Nat /\ settings \in Nat

\* "so that there isn't a window of time where the cache serves out an expired
\* token" (jwt_cache.py): a token that can be taken from the cache has not expired,
\* as long as the preference is not changed between its two reads.
LiveInCache == settings = 0 /\ Cached => now < cache.token.exp

\* A token that no longer agrees with the user, because a check overtook the
\* invalidation or because an instance was saved twice, is served for at most the
\* lifetime of an entry and the duration of a check after the change.
StaleAtMostLifetime ==
  Cached =>
    \A k \in Kinds :
      cache.token[k] # user[k] =>
        \E e \in Expirations :
          now < leftAt[k][cache.token[k]] + MaxDelay + (e - Buffer) * TicksPerSecond

\* An internal route with authentication is only reached with a service token.
InternalNeedsServiceToken ==
  \A t \in Threads :
    answer[t] # Idle =>
      LET r == answer[t].request
      IN  (r.internal /\ ~r.auth_none /\ ~r.oidc_path /\ answer[t].outcome \in {"plain", "token"})
            => r.credential = "service"
=============================================================================
