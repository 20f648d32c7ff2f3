------------------------------- MODULE Access -------------------------------
(***************************************************************************)
(* Who gets in: API keys that are created, rotated, deleted and expire     *)
(* (apikeys.go), OAuth tokens (oauth.go), the middleware that checks them  *)
(* and the permissions of their principals statement by statement (auth.go,*)
(* authz.go), the same check of the event stream (events.go) and the task  *)
(* that cleans up (tasks.go).                                              *)
(*                                                                         *)
(* Abstractions.  Hashes do not collide, so that a secret stands for its   *)
(* hash; the n-th secret that is generated is n, and an API key has the id *)
(* of its first secret.  Time is counted in hours and passes through the   *)
(* instants of Times.  Every step that asks for the time, by time.Now() on *)
(* some node or by NOW() in PostgreSQL, gets an answer of its own, at most *)
(* MaxSkew after the slowest clock.  A statement may fail, which most of   *)
(* the code takes for an empty result.  last_used_at, scopes and names are *)
(* left out: nothing reads them.  Handlers that manage keys are called by  *)
(* a principal that has been let in.  Authentication is enabled            *)
(* (auth.enabled); without it nobody is asked for a secret.                *)
(*                                                                         *)
(* Some definitions are preceded by a variant that no action uses: what a  *)
(* plausible mistake in the code would make of them.                       *)
(***************************************************************************)
EXTENDS Integers, Sequences, FiniteSets

CONSTANTS
    Callers,           \* the requests that have to be let in
    Rotators,          \* the requests that rotate a key
    MaxSecrets,        \* how many secrets are generated
    MaxKeys,           \* how many of them for new keys
    Times,             \* the instants, in hours
    MaxSkew,           \* how far the clocks are apart
    Durations,         \* the values of expires_in, None for a key that stays
    TokenExpiry,       \* auth.token_expiry
    Calls,             \* what the callers ask for
    GrantSets,         \* what namespace_permissions may hold
    InitialGrants,     \* what it holds at first
    MaxChanges,        \* how often it is changed
    OAuthEnabled, APIKeyEnabled, ACLEnabled, \* auth.*.enabled
    DefaultPermission, \* auth.acl.default_permission
    None               \* NULL

Secrets == 1..MaxSecrets
OAuthClient == 0       \* auth.oauth2.client_id, the principal of every token
Permissions == {"read", "write", "manage"}
RotationGracePeriod == 24

HoursIn == [h |-> 1, d |-> 24, w |-> 7 * 24, m |-> 30 * 24, y |-> 365 * 24]

\* time.Duration counts nanoseconds in 64 bits, which is about so many hours.
DurationRange == 5124096

\* parseDuration: the product wraps around, and the longest ones are negative.
ParseDuration(d) ==
    ((d.n * HoursIn[d.unit] + DurationRange \div 2) % DurationRange) - DurationRange \div 2

\* A row of namespace_permissions, one per permission.
Grant == [space : Seq(STRING), principal : Secrets \cup {OAuthClient},
          type : {"api_key", "oauth2"}, permission : Permissions]

\* The scheme of the Authorization header, or "stream" for the token of a
\* WebSocket; the segments of the path as they are spelt, which some route
\* matches, whatever their case; and the permission that the method calls for.
Call == [scheme : {"bearer", "x-api-key", "other", "stream"},
         segments : Seq(STRING), required : Permissions]

ASSUME AccessAssumption ==
    /\ MaxSecrets \in Nat /\ MaxKeys \in Nat /\ MaxChanges \in Nat /\ TokenExpiry \in Int
    /\ Times \subseteq Nat /\ 0 \in Times /\ MaxSkew \in Nat
    /\ \A d \in Durations \ {None} : d.n \in Nat /\ d.unit \in DOMAIN HoursIn
    /\ \A r \in Calls : r \in Call
    /\ InitialGrants \in GrantSets /\ \A gs \in GrantSets : \A g \in gs : g \in Grant
    /\ {OAuthEnabled, APIKeyEnabled, ACLEnabled} \subseteq BOOLEAN
    /\ DefaultPermission \in Permissions \cup {None}
    /\ None \notin Int /\ None \notin [hash : Secrets, previous : Secrets \cup {None},
                                         rotatedAt : Int \cup {None}, expires : Int \cup {None}]

VARIABLES
    now,      \* the time, by the slowest clock
    keys,     \* api_keys, by id
    tokens,   \* oauth_tokens: when each token expires
    granted,  \* namespace_permissions
    issued,   \* how many secrets have been generated
    rotation, \* what each rotator has read of the key that it rotates
    session,  \* where each caller stands
    answer,   \* the last answer to it
    \* History, which no step depends on:
    owner,    \* the key or client that each secret was issued for
    promise,  \* the expiry that was told with a new key or token
    deleted,  \* the keys that DeleteAPIKey has deleted
    ever,     \* what was true of each caller at some moment of its call by some clock
    always,   \* what was true of it all the while by every clock
    changes   \* how often the permissions were changed

keyVars == <<keys, issued, owner, promise, deleted>>
database == <<now, keyVars, tokens, granted, rotation, changes>>
callerVars == <<session, answer>>
vars == <<database, callerVars, ever, always>>

\* A caller that has no request under way: at is the next statement, who the
\* principal that it has been found to be, expires the expires_at of its key,
\* asking the permissions that checkPermission has not asked for yet, and
\* unlucky whether a statement has failed.
Idle == [at |-> "idle", call |-> None, secret |-> None, who |-> None, expires |-> None,
         asking |-> <<>>, unlucky |-> FALSE]

Init ==
    /\ now = 0 /\ issued = 0 /\ changes = 0
    /\ keys = [i \in Secrets |-> None]
    /\ tokens = [s \in Secrets |-> None]
    /\ granted = InitialGrants
    /\ rotation = [r \in Rotators |-> None]
    /\ session = [c \in Callers |-> Idle]
    /\ answer = [c \in Callers |-> None]
    /\ owner = [s \in Secrets |-> None]
    /\ promise = [s \in Secrets |-> None]
    /\ deleted = {}
    /\ ever = [c \in Callers |-> {}]
    /\ always = [c \in Callers |-> {}]

----------------------------------------------------------------------------
(***************************************************************************)
(* Keys, tokens and permissions                                            *)
(***************************************************************************)
\* What a clock may show, and the fastest one.
Latest == now + MaxSkew
Clock == now..Latest

Tick ==
    /\ \E t \in Times : t > now /\ now' = t /\ \A u \in Times : u > now => u >= t
    /\ UNCHANGED <<keyVars, tokens, granted, rotation, changes>>

\* A fresh secret for the key or client o.
Issue(o) ==
    /\ issued < MaxSecrets
    /\ issued' = issued + 1
    /\ owner' = [owner EXCEPT ![issued + 1] = o]

CreateAPIKey(d, t) ==
    LET expires == IF d = None THEN None ELSE t + ParseDuration(d) IN
    /\ Cardinality({i \in Secrets : owner[i] = i}) < MaxKeys
    /\ Issue(issued + 1)
    /\ keys' = [keys EXCEPT ![issued + 1] = [hash |-> issued + 1, previous |-> None,
                                             rotatedAt |-> None, expires |-> expires]]
    /\ promise' = [promise EXCEPT ![issued + 1] = expires]
    /\ UNCHANGED <<now, deleted, tokens, granted, rotation, changes>>

\* The SELECT of RotateAPIKey; a key that is not there is answered by 404.
ReadKey(r, i) ==
    /\ rotation[r] = None /\ keys[i] # None
    /\ rotation' = [rotation EXCEPT ![r] = [id |-> i, hash |-> keys[i].hash]]
    /\ UNCHANGED <<now, keyVars, tokens, granted, changes>>

\* UPDATE api_keys ... WHERE id, which may find no row.
RotatedKey(r, s, t) ==
    [keys EXCEPT ![rotation[r].id] =
       IF @ = None THEN None
       ELSE [@ EXCEPT !.hash = s, !.previous = rotation[r].hash, !.rotatedAt = t]]

\* The new secret, time.Now() and at once the UPDATE, some time after the SELECT.
\* The answer is the secret, even if the key is gone.
RotateAPIKey(r, t) ==
    /\ rotation[r] # None
    /\ Issue(rotation[r].id)
    /\ keys' = RotatedKey(r, issued + 1, t)
    /\ rotation' = [rotation EXCEPT ![r] = None]
    /\ UNCHANGED <<now, promise, deleted, tokens, granted, changes>>

\* The UPDATE fails, or the request ends before it.
RotateFails(r) ==
    /\ rotation[r] # None
    /\ rotation' = [rotation EXCEPT ![r] = None]
    /\ UNCHANGED <<now, keyVars, tokens, granted, changes>>

\* 404 if the DELETE removes no row.
DeleteAPIKey(i) ==
    /\ keys[i] # None
    /\ keys' = [keys EXCEPT ![i] = None]
    /\ deleted' = deleted \cup {i}
    /\ UNCHANGED <<now, issued, owner, promise, tokens, granted, rotation, changes>>

ExchangeToken(t) ==
    /\ OAuthEnabled
    /\ Issue(OAuthClient)
    /\ tokens' = [tokens EXCEPT ![issued + 1] = t + TokenExpiry]
    /\ promise' = [promise EXCEPT ![issued + 1] = t + TokenExpiry]
    /\ UNCHANGED <<now, keys, deleted, granted, rotation, changes>>

\* expires_at < NOW()
ExpiredByNow(e, t) == e # None /\ e <= t

Expired(e, t) == e # None /\ e < t

\* cleanupExpiredTokens: tokens first, then keys; an error ends it in between.
CleanupExpiredTokens(t) ==
    /\ \E i \in Secrets : Expired(tokens[i], t) \/ (keys[i] # None /\ Expired(keys[i].expires, t))
    /\ tokens' = [s \in Secrets |-> IF Expired(tokens[s], t) THEN None ELSE tokens[s]]
    /\ \/ keys' = [i \in Secrets |-> IF keys[i] # None /\ Expired(keys[i].expires, t) THEN None ELSE keys[i]]
       \/ UNCHANGED keys
    /\ UNCHANGED <<now, issued, owner, promise, deleted, granted, rotation, changes>>

\* Permissions are granted and revoked by SQL; no handler does it.
ChangeGrants(g) ==
    /\ changes < MaxChanges /\ g # granted
    /\ granted' = g
    /\ changes' = changes + 1
    /\ UNCHANGED <<now, keyVars, tokens, rotation>>

----------------------------------------------------------------------------
(***************************************************************************)
(* Callers                                                                 *)
(***************************************************************************)
\* Auth: the statement that the scheme leads to.
FirstLookup(scheme) ==
    IF scheme = "stream" THEN "streamKey"
    ELSE IF scheme = "bearer" /\ OAuthEnabled THEN "token"
    ELSE IF scheme \in {"bearer", "x-api-key"} /\ APIKeyEnabled THEN "current" ELSE "refuse"

\* A caller sends a secret that somebody was given.
Begin(c, r, s) ==
    /\ session[c].at = "idle" /\ s <= issued
    /\ session' = [session EXCEPT ![c] = [Idle EXCEPT !.at = FirstLookup(r.scheme), !.call = r,
                                                      !.secret = s]]
    /\ answer' = [answer EXCEPT ![c] = None]

\* What a statement returns: the rows that match, or none if it fails.
Result(rows) == {[rows |-> rows, fails |-> FALSE], [rows |-> {}, fails |-> TRUE]}

\* The answer, and whether statements failed on the way to it.
Reply(c, code, fails) ==
    /\ answer' = [answer EXCEPT ![c] = [code |-> code, unlucky |-> session[c].unlucky \/ fails]]
    /\ session' = [session EXCEPT ![c] = Idle]

Refuse(c) == session[c].at = "refuse" /\ Reply(c, "unauthorized", FALSE)

\* checkPermission asks for what is required, then for manage, then for write.
AsksFor(required) ==
    CASE required = "read" -> <<"read", "manage", "write">>
      [] required = "write" -> <<"write", "manage">>
      [] required = "manage" -> <<"manage">>

\* extractNamespace: the first segment after one that is spelt "namespaces", unless
\* it is empty or one of three words, which namespaces may be called as well.
Named(segments) ==
    {k \in 1..(Len(segments) - 1) :
       segments[k] = "namespaces" /\ segments[k + 1] \notin {"", "tables", "views", "properties"}}

NamespaceOf ==
    [call \in Calls |->
       LET named == Named(call.segments) IN
       IF named = {} THEN None ELSE call.segments[1 + CHOOSE k \in named : \A j \in named : k <= j]]

\* Authz has something to check if it finds a namespace in the path.
Checks(call) == IF ACLEnabled /\ NamespaceOf[call] # None THEN AsksFor(call.required) ELSE <<>>

\* The principal is put into the context of the request.
AuthenticateForgotten(c, p) ==
    /\ session' = [session EXCEPT ![c].at = "authz", ![c].asking = Checks(session[c].call)]
    /\ UNCHANGED answer

Authenticate(c, p) ==
    /\ session' = [session EXCEPT ![c].at = "authz", ![c].who = p,
                                  ![c].asking = Checks(session[c].call)]
    /\ UNCHANGED answer

TokenRows(c, t) == {s \in Secrets : s = session[c].secret /\ tokens[s] # None /\ tokens[s] > t}

\* validateBearerToken
LookupToken(c, t) ==
    /\ session[c].at = "token"
    /\ \E q \in Result(TokenRows(c, t)) :
         \/ q.rows # {} /\ Authenticate(c, [id |-> OAuthClient, type |-> "oauth2"])
         \/ q.rows = {} /\ Reply(c, "unauthorized", q.fails)

CurrentRows(c) == {i \in Secrets : keys[i] # None /\ keys[i].hash = session[c].secret}

PreviousRowsForever(c, t) ==
    {i \in Secrets : keys[i] # None /\ keys[i].previous = session[c].secret}

PreviousRows(c, t) ==
    {i \in Secrets : /\ keys[i] # None /\ keys[i].previous = session[c].secret
                     /\ keys[i].rotatedAt > t - RotationGracePeriod}

FoundKey(c, i, type) ==
    /\ session' = [session EXCEPT ![c].at = "expiry", ![c].who = [id |-> i, type |-> type],
                                  ![c].expires = keys[i].expires]
    /\ UNCHANGED answer

LookElsewhere(c, at, fails) ==
    /\ session' = [session EXCEPT ![c].at = at, ![c].unlucky = @ \/ fails]
    /\ UNCHANGED answer

\* validateAPIKey looks for the secret as a current key, ...
LookupCurrent(c) ==
    /\ session[c].at = "current"
    /\ \E q \in Result(CurrentRows(c)) :
         \/ \E i \in q.rows : FoundKey(c, i, "api_key")
         \/ q.rows = {} /\ LookElsewhere(c, "previous", q.fails)

\* ... then as one that was rotated less than a day ago, ...
LookupPrevious(c, t) ==
    /\ session[c].at = "previous"
    /\ \E q \in Result(PreviousRows(c, t)) :
         \/ \E i \in q.rows : FoundKey(c, i, "api_key_rotated")
         \/ q.rows = {} /\ Reply(c, "unauthorized", q.fails)

\* ... and looks at the clock again: expiresAt.Before(time.Now()).
Past(e, t) == e # None /\ e < t

CheckExpiry(c, t) ==
    /\ session[c].at = "expiry"
    /\ \/ Past(session[c].expires, t) /\ Reply(c, "unauthorized", FALSE)
       \/ ~Past(session[c].expires, t) /\ Authenticate(c, session[c].who)

\* n.name[1] = $1: the segment of the path, neither decoded nor split, is compared
\* with the first level of a namespace, whatever its other levels.
OnPath(g, segment) == Head(g.space) = segment

Holds(p, segment, permission) ==
    \E g \in granted : /\ OnPath(g, segment) /\ g.permission = permission
                       /\ g.principal = p.id /\ g.type = p.type

\* hasDefaultPermission: whoever may do more may do less.
Includes(permission, required) == \E k \in DOMAIN AsksFor(required) : AsksFor(required)[k] = permission

PassThrough(c) ==
    /\ session[c].at = "authz" /\ session[c].asking = <<>>
    /\ Reply(c, "ok", FALSE)

\* One of the up to three statements of checkPermission.
CheckPermission(c) ==
    /\ session[c].at = "authz" /\ session[c].asking # <<>>
    /\ LET call == session[c].call
           holds == Holds(session[c].who, NamespaceOf[call], Head(session[c].asking))
           last == Len(session[c].asking) = 1
       IN  \/ holds /\ Reply(c, "ok", FALSE)
           \/ /\ ~holds /\ last
              /\ Reply(c, IF Includes(DefaultPermission, call.required) THEN "ok" ELSE "forbidden", FALSE)
           \/ /\ ~holds /\ ~last
              /\ session' = [session EXCEPT ![c].asking = Tail(@)]
              /\ UNCHANGED answer
           \/ Reply(c, "forbidden", TRUE)

\* authenticateWebSocket: a current key that has not expired, or a token.
StreamKey(c, t) ==
    /\ session[c].at = "streamKey"
    /\ \E q \in Result({i \in CurrentRows(c) : keys[i].expires = None \/ keys[i].expires > t}) :
         \/ q.rows # {} /\ Reply(c, "ok", FALSE)
         \/ q.rows = {} /\ LookElsewhere(c, "streamToken", q.fails)

StreamToken(c, t) ==
    /\ session[c].at = "streamToken"
    /\ \E q \in Result(TokenRows(c, t)) :
         Reply(c, IF q.rows # {} THEN "ok" ELSE "unauthorized", q.fails)

----------------------------------------------------------------------------
Manage ==
    \/ Tick
    \/ \E t \in Clock : \/ CleanupExpiredTokens(t) \/ ExchangeToken(t)
                       \/ \E d \in Durations : CreateAPIKey(d, t)
                       \/ \E r \in Rotators : RotateAPIKey(r, t)
    \/ \E i \in Secrets : DeleteAPIKey(i)
    \/ \E r \in Rotators : RotateFails(r) \/ \E i \in Secrets : ReadKey(r, i)
    \/ \E g \in GrantSets : ChangeGrants(g)

Caller(c) ==
    \/ \E r \in Calls, s \in Secrets : Begin(c, r, s)
    \/ Refuse(c) \/ LookupCurrent(c) \/ PassThrough(c) \/ CheckPermission(c)
    \/ \E t \in Clock : \/ LookupToken(c, t) \/ LookupPrevious(c, t) \/ CheckExpiry(c, t)
                       \/ StreamKey(c, t) \/ StreamToken(c, t)

\* What the secret s is good for at the time t, from the point of view of those
\* who were given it: for an API key that nobody has deleted and that has not
\* expired, as the current secret or as the one before it, for a stream, or as a
\* token.  A key that is missing for another reason is no excuse.
GoodFor(s, t) ==
    LET i == owner[s]
        live == i # OAuthClient /\ i \notin deleted /\ ~Past(promise[i], t)
    IN  {k \in {"key", "current", "token"} :
           CASE k = "key" -> /\ live
                             /\ \/ keys[i] = None \/ keys[i].hash = s
                                \/ /\ keys[i].previous = s
                                   /\ keys[i].rotatedAt > t - RotationGracePeriod
             [] k = "current" -> live /\ promise[i] # t /\ (keys[i] = None \/ keys[i].hash = s)
             [] k = "token" -> i = OAuthClient /\ promise[s] > t}

\* What a request with this scheme has to present.
Accepts(scheme) ==
    CASE FirstLookup(scheme) = "streamKey" -> {"current", "token"}
      [] FirstLookup(scheme) = "token" -> {"token"}
      [] FirstLookup(scheme) = "current" -> {"key"}
      [] FirstLookup(scheme) = "refuse" -> {}

\* The principal in the sense of namespace_permissions.
Declared(s) == [id |-> owner[s], type |-> IF owner[s] = OAuthClient THEN "oauth2" ELSE "api_key"]

\* What is true of a request at the time t and speaks for it.
TrueOf(c, t) ==
    LET call == session[c].call  s == session[c].secret IN
    (GoodFor(s, t) \cap Accepts(call.scheme)) \cup
    {p \in Permissions : /\ NamespaceOf[call] # None /\ Includes(p, call.required)
                         /\ Holds(Declared(s), NamespaceOf[call], p)}

\* By some clock, and by every clock: what is good by a clock is so by a slower one.
ArguablyTrueOf(c) == TrueOf(c, now)
SurelyTrueOf(c) == TrueOf(c, Latest)

Busy(c) == session[c].at # "idle"

Observe ==
    /\ ever' = [c \in Callers |-> IF Busy(c)' THEN ever[c] \cup ArguablyTrueOf(c)' ELSE {}]
    /\ always' = [c \in Callers |-> IF ~Busy(c)' THEN {}
                                    ELSE IF Busy(c) THEN always[c] \cap SurelyTrueOf(c)'
                                    ELSE SurelyTrueOf(c)']

Next ==
    /\ \/ Manage /\ UNCHANGED callerVars
       \/ \E c \in Callers : Caller(c) /\ UNCHANGED database
    /\ Observe

Spec == Init /\ [][Next]_vars

----------------------------------------------------------------------------
(***************************************************************************)
(* Properties                                                              *)
(***************************************************************************)
Instant == Int \cup {None}
Key == [hash : Secrets, previous : Secrets \cup {None}, rotatedAt : Instant, expires : Instant]
Principal == [id : Secrets \cup {OAuthClient}, type : {"api_key", "api_key_rotated", "oauth2"}]
Lookups == {"token", "current", "previous", "streamKey", "streamToken"}

\* Every variable has its type; whoever gets to Authz has a principal, so that with
\* authentication enabled "no authenticated principal" is never answered.
TypeOK ==
    /\ now \in Times /\ issued \in 0..MaxSecrets /\ changes \in 0..MaxChanges
    /\ keys \in [Secrets -> Key \cup {None}] /\ deleted \subseteq Secrets
    /\ promise \in [Secrets -> Instant]
    /\ tokens \in [Secrets -> Instant] /\ granted \in GrantSets
    /\ owner \in [Secrets -> Secrets \cup {OAuthClient, None}]
    /\ rotation \in [Rotators -> [id : Secrets, hash : Secrets] \cup {None}]
    /\ \A c \in Callers :
         \/ session[c] = Idle
         \/ /\ session[c].call \in Calls /\ session[c].secret \in 1..issued
            /\ session[c].expires \in Instant /\ session[c].unlucky \in BOOLEAN
            /\ \/ session[c].at \in Lookups \cup {"refuse"} /\ session[c].who = None
               \/ session[c].at \in {"expiry", "authz"} /\ session[c].who \in Principal
    /\ answer \in [Callers -> [code : {"ok", "unauthorized", "forbidden"}, unlucky : BOOLEAN] \cup {None}]

Answers(c, code) == Busy(c) /\ ~Busy(c)' /\ answer'[c].code = code

\* Authz lets everybody through to a path in which it finds no namespace: one of
\* no namespace, one of a namespace called tables, views or properties, and one
\* that spells "namespaces" in another case, which Fiber routes all the same.
Unchecked(call) ==
    ~ACLEnabled \/ NamespaceOf[call] = None \/ Includes(DefaultPermission, call.required)

\* The several statements of a request, by clocks that differ, never add up to
\* more than was granted: whoever is let in had, at some moment of the request and
\* by some clock, a secret that was good for a key that nobody had deleted, or a
\* token that had not expired, and is taken for its owner; and at some moment its
\* owner had the permission, if Authz checks the path at all (see Unchecked).  A
\* rotation that was under way when its key was deleted does not bring it back.
AccessIsJustified ==
    [][\A c \in Callers : Answers(c, "ok") =>
         LET call == session[c].call IN
         /\ ever[c] \cap Accepts(call.scheme) # {}
         /\ call.scheme # "stream" =>
              /\ session[c].who.id = owner[session[c].secret]
              /\ Unchecked(call) \/ ever[c] \cap Permissions # {}]_vars

\* The code looks for the key of a caller in two statements, for its permission
\* in three, and compares with several clocks.  Nobody falls between them: a
\* secret that was good all the while by every clock, whether it was rotated
\* meanwhile or not, is not refused, and neither is a permission that was held all the while.
\* (A statement that fails refuses.  Keys in their grace period are principals
\* of another type, which have no permissions.)
AccessIsReliable ==
    [][\A c \in Callers : ~Busy(c)' /\ Busy(c) /\ ~answer'[c].unlucky =>
         LET call == session[c].call IN
         /\ Answers(c, "unauthorized") => always[c] \cap Accepts(call.scheme) = {}
         /\ Answers(c, "forbidden") =>
              /\ ~Unchecked(call)
              /\ session[c].who.type # "api_key_rotated" => always[c] \cap Permissions = {}]_vars
=============================================================================
