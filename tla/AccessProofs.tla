---------------------------- MODULE AccessProofs ----------------------------
(***************************************************************************)
(* Proofs about Access, for any number of callers, rotations, secrets,     *)
(* instants, calls and permissions, and every configuration: whoever is    *)
(* let in had the right to it, and whoever had it all the while gets in.   *)
(***************************************************************************)
EXTENDS Access, TLAPS

----------------------------------------------------------------------------
(***************************************************************************)
(* The inductive invariant: the keys and tokens                            *)
(***************************************************************************)
\* A secret belongs to a client or to a key, which is its own first secret;
\* what was not generated yet belongs to nobody.
OwnersExist ==
    \A s \in Secrets :
      /\ s <= issued => owner[s] = OAuthClient \/ (owner[s] \in 1..issued /\ owner[owner[s]] = owner[s])
      /\ s > issued => keys[s] = None /\ tokens[s] = None /\ s \notin deleted

\* The row of a key holds secrets of its own and the expiry that was promised,
\* and nobody has deleted it.
KeysAreSound ==
    \A i \in Secrets : keys[i] # None =>
      /\ i \notin deleted /\ owner[i] = i
      /\ keys[i].hash <= issued /\ owner[keys[i].hash] = i
      /\ keys[i].previous # None =>
           /\ keys[i].previous <= issued /\ owner[keys[i].previous] = i /\ keys[i].rotatedAt \in Int
      /\ keys[i].expires = promise[i]

\* A key has no row only because it was deleted or has expired by the fastest clock.
KeysAreKept ==
    \A i \in 1..issued : owner[i] = i /\ keys[i] = None => i \in deleted \/ Past(promise[i], Latest)

\* A token has the expiry that was promised, and is there until then.
TokensAreSound ==
    \A s \in 1..issued :
      /\ tokens[s] # None => owner[s] = OAuthClient
      /\ owner[s] = OAuthClient =>
           promise[s] \in Int /\ (tokens[s] = promise[s] \/ (tokens[s] = None /\ promise[s] < Latest))

\* What a rotation has read is a secret of its key.
RotationsAreSound ==
    \A r \in Rotators : rotation[r] # None =>
      /\ rotation[r].id <= issued /\ owner[rotation[r].id] = rotation[r].id
      /\ rotation[r].hash <= issued /\ owner[rotation[r].hash] = rotation[r].id

KeyInv == OwnersExist /\ KeysAreSound /\ KeysAreKept /\ TokensAreSound /\ RotationsAreSound

----------------------------------------------------------------------------
(***************************************************************************)
(* The inductive invariant: the callers                                    *)
(***************************************************************************)
Session == [at : Lookups \cup {"idle", "refuse", "expiry", "authz"}, call : Calls \cup {None},
            secret : Secrets \cup {None}, who : Principal \cup {None}, expires : Instant,
            asking : Seq(Permissions), unlucky : BOOLEAN]

\* The history holds what is true now by some clock, and all that was true all the
\* while is so by every clock.
HistoryIsCurrent(c) == ArguablyTrueOf(c) \subseteq ever[c] /\ always[c] \subseteq SurelyTrueOf(c)

\* Each stage belongs to the lookup that the scheme leads to.
StageFitsScheme(c) ==
    LET first == FirstLookup(session[c].call.scheme)  at == session[c].at IN
    /\ at = "refuse" => first = "refuse"
    /\ at = "token" => first = "token"
    /\ at \in {"current", "previous", "expiry"} => first = "current"
    /\ at \in {"streamKey", "streamToken"} => first = "streamKey"
    /\ at = "authz" => first \in {"token", "current"}

\* The secret was not found as a current one, and will not be one again.
NotCurrent(c) ==
    LET i == owner[session[c].secret] IN
    i # OAuthClient /\ keys[i] # None => keys[i].hash # session[c].secret

\* What the lookups that found nothing have shown.
SearchIsSound(c) ==
    /\ session[c].at = "previous" /\ ~session[c].unlucky => NotCurrent(c)
    /\ session[c].at = "streamToken" /\ ~session[c].unlucky => "current" \notin always[c]

\* The principal is the owner of the secret.
PrincipalIsOwner(c) ==
    session[c].at \in {"expiry", "authz"} =>
      /\ session[c].who.id = owner[session[c].secret]
      /\ session[c].who.type = "oauth2" <=> owner[session[c].secret] = OAuthClient

\* The key that was found was good then, unless it had expired already.
FoundIsGood(c) ==
    /\ session[c].at = "expiry" =>
         /\ session[c].who.type # "oauth2"
         /\ session[c].expires = promise[owner[session[c].secret]]
         /\ Past(session[c].expires, now) \/ "key" \in ever[c]
    /\ session[c].at = "authz" => ever[c] \cap Accepts(session[c].call.scheme) # {}

\* p is still to be asked for.
IsAsked(q, p) == \E k \in 1..Len(q) : q[k] = p

\* What is asked for would do, and what was asked for already was not held.
AskingIsSound(c) ==
    LET call == session[c].call  asking == session[c].asking IN
    session[c].at = "authz" =>
      /\ asking = <<>> => ~ACLEnabled \/ NamespaceOf[call] = None
      /\ asking # <<>> => ACLEnabled /\ NamespaceOf[call] # None
      /\ \A p : IsAsked(asking, p) => Includes(p, call.required)
      /\ asking # <<>> /\ session[c].who.type # "api_key_rotated" =>
           \A p \in always[c] \cap Permissions : IsAsked(asking, p)

CallerInv(c) ==
    Busy(c) => /\ HistoryIsCurrent(c) /\ StageFitsScheme(c) /\ SearchIsSound(c)
               /\ PrincipalIsOwner(c) /\ FoundIsGood(c) /\ AskingIsSound(c)

IndInv == TypeOK /\ session \in [Callers -> Session] /\ KeyInv /\ \A c \in Callers : CallerInv(c)

----------------------------------------------------------------------------
(***************************************************************************)
(* The database                                                            *)
(***************************************************************************)
\* The types of the database, and those of the callers.
DatabaseOK ==
    /\ now \in Times /\ issued \in 0..MaxSecrets /\ changes \in 0..MaxChanges
    /\ keys \in [Secrets -> Key \cup {None}] /\ deleted \subseteq Secrets
    /\ promise \in [Secrets -> Instant]
    /\ tokens \in [Secrets -> Instant] /\ granted \in GrantSets
    /\ owner \in [Secrets -> Secrets \cup {OAuthClient, None}]
    /\ rotation \in [Rotators -> [id : Secrets, hash : Secrets] \cup {None}]

CallersOK ==
    /\ \A c \in Callers :
         \/ session[c] = Idle
         \/ /\ session[c].call \in Calls /\ session[c].secret \in 1..issued
            /\ session[c].expires \in Instant /\ session[c].unlucky \in BOOLEAN
            /\ \/ session[c].at \in Lookups \cup {"refuse"} /\ session[c].who = None
               \/ session[c].at \in {"expiry", "authz"} /\ session[c].who \in Principal
    /\ answer \in [Callers -> [code : {"ok", "unauthorized", "forbidden"}, unlucky : BOOLEAN] \cup {None}]

\* The type invariant, in its two halves.
LEMMA TypeParts == TypeOK <=> DatabaseOK /\ CallersOK
  BY DEF TypeOK, DatabaseOK, CallersOK

\* The facts about the constants that the proofs use.
LEMMA Constants ==
    /\ MaxSecrets \in Nat /\ MaxChanges \in Nat /\ TokenExpiry \in Int /\ Times \subseteq Nat
    /\ 0 \in Times /\ MaxSkew \in Nat /\ None \notin Int /\ None \notin Key /\ None \notin Secrets
    /\ Secrets \subseteq Nat /\ OAuthClient \notin Secrets /\ OAuthClient # None
    /\ InitialGrants \in GrantSets /\ Calls \subseteq Call
  <1>1. Secrets \subseteq Nat /\ OAuthClient \notin Secrets
    BY AccessAssumption DEF Secrets, OAuthClient
  <1>2. None \notin Key
    BY AccessAssumption DEF Key, Instant
  <1>3. None \notin Int
    BY AccessAssumption
  <1>4. None \notin Secrets
    BY <1>3 DEF Secrets
  <1>5. OAuthClient # None
    BY <1>3 DEF OAuthClient
  <1>6. Calls \subseteq Call
    BY AccessAssumption
  <1> QED  BY <1>1, <1>2, <1>3, <1>4, <1>5, <1>6, AccessAssumption

\* The secrets that have been generated, and the next one.
LEMMA Generated ==
    ASSUME DatabaseOK
    PROVE  /\ issued \in Nat /\ \A s : s \in 1..issued <=> s \in Secrets /\ s <= issued
           /\ issued < MaxSecrets => issued + 1 \in Secrets /\ issued + 1 \in 0..MaxSecrets
  BY Constants DEF DatabaseOK, Secrets

\* What the clocks show is between the slowest and the fastest of them.
LEMMA Clocks ==
    ASSUME DatabaseOK
    PROVE  /\ now \in Nat /\ Latest \in Nat /\ now <= Latest /\ now \in Clock
           /\ \A t \in Clock : t \in Nat /\ now <= t /\ t <= Latest
  BY Constants DEF DatabaseOK, Latest, Clock

\* As the slowest clock moves on, so does the fastest.
LEMMA LaterClocks ==
    ASSUME now \in Nat, now' \in Nat, now <= now'
    PROVE  Latest \in Nat /\ Latest' \in Nat /\ Latest <= Latest'
  <1>1. \A m, n, k \in Nat : m <= n => m + k \in Nat /\ n + k \in Nat /\ m + k <= n + k
    OBVIOUS
  <1>2. MaxSkew \in Nat
    BY Constants
  <1> QED  BY <1>1, <1>2 DEF Latest

\* However long a key is to last, its expiry is a number.
LEMMA DurationIsNumber ==
    ASSUME NEW d \in Durations, d # None PROVE ParseDuration(d) \in Int
  <1>1. d.n \in Nat /\ d.unit \in {"h", "d", "w", "m", "y"}
    BY AccessAssumption DEF HoursIn
  <1>2. HoursIn[d.unit] \in Nat
    BY <1>1 DEF HoursIn
  <1> DEFINE k == d.n * HoursIn[d.unit]
  <1>3. k \in Int
    BY <1>1, <1>2
  <1> HIDE DEF k
  <1>4. ((k + 2562048) % 5124096) - 2562048 \in Int
    BY <1>3
  <1>5. DurationRange = 5124096 /\ DurationRange \div 2 = 2562048
    BY DEF DurationRange
  <1> QED  BY <1>4, <1>5 DEF ParseDuration, k

\* How the database changes, as far as a caller can tell: time passes, what was
\* issued stays what it is, and no key comes back or gets an old secret again.
Evolves ==
    /\ now <= now' /\ issued <= issued'
    /\ \A s \in 1..issued : owner'[s] = owner[s] /\ promise'[s] = promise[s]
    /\ \A i \in 1..issued : keys'[i] # None =>
         keys[i] # None /\ (keys'[i].hash = keys[i].hash \/ keys'[i].hash > issued)

GoodStep == DatabaseOK' /\ KeyInv' /\ Evolves

\* Time passes, permissions change.
LEMMA TimeStep ==
    ASSUME DatabaseOK, KeyInv, now' \in Times, now <= now', changes' \in 0..MaxChanges,
           granted' \in GrantSets, UNCHANGED <<keyVars, tokens, rotation>>
    PROVE  GoodStep
  <1>0. UNCHANGED <<keys, issued, owner, promise, deleted, tokens, rotation>>
    BY DEF keyVars
  <1>1. DatabaseOK'
    BY <1>0 DEF DatabaseOK
  <1>2. /\ now \in Nat /\ now' \in Nat /\ Latest \in Nat /\ Latest' \in Nat /\ Latest <= Latest'
        /\ None \notin Int /\ \A i \in Secrets : promise[i] \in Int \cup {None}
    <2>1. now \in Nat /\ now' \in Nat
      BY Constants DEF DatabaseOK
    <2>2. Latest \in Nat /\ Latest' \in Nat /\ Latest <= Latest'
      BY <2>1, LaterClocks
    <2> QED  BY <2>1, <2>2, Constants DEF DatabaseOK, Instant
  <1>3. \A i \in Secrets : Past(promise[i], Latest) => Past(promise[i], Latest)'
    BY <1>0, <1>2 DEF Past
  <1>4. KeysAreKept'
    BY <1>0, <1>3, Generated DEF KeyInv, KeysAreKept
  <1>5. TokensAreSound'
    BY <1>0, <1>2 DEF KeyInv, TokensAreSound
  <1>6. OwnersExist' /\ KeysAreSound' /\ RotationsAreSound'
    BY <1>0 DEF KeyInv, OwnersExist, KeysAreSound, RotationsAreSound
  <1>7. Evolves
    BY <1>0, <1>2, Generated DEF Evolves, DatabaseOK
  <1> QED  BY <1>1, <1>4, <1>5, <1>6, <1>7 DEF GoodStep, KeyInv

\* A rotation reads its key, or gives up.
LEMMA RotationStep ==
    ASSUME DatabaseOK, KeyInv, NEW r \in Rotators,
           RotateFails(r) \/ \E i \in Secrets : ReadKey(r, i)
    PROVE  GoodStep
  <1>0. UNCHANGED <<now, keys, issued, owner, promise, deleted, tokens, granted, changes>>
    BY DEF RotateFails, ReadKey, keyVars
  <1>1. /\ rotation' \in [Rotators -> [id : Secrets, hash : Secrets] \cup {None}]
        /\ RotationsAreSound'
    <2>1. CASE RotateFails(r)
      BY <1>0, <2>1 DEF RotateFails, DatabaseOK, KeyInv, RotationsAreSound
    <2>2. ASSUME NEW i \in Secrets, ReadKey(r, i)
          PROVE  /\ rotation' \in [Rotators -> [id : Secrets, hash : Secrets] \cup {None}]
                 /\ RotationsAreSound'
      <3>1. /\ keys[i] # None /\ rotation' = [rotation EXCEPT ![r] = [id |-> i, hash |-> keys[i].hash]]
            /\ keys[i].hash \in Secrets
        BY <2>2 DEF ReadKey, DatabaseOK, Key
      <3>2. keys[i].hash <= issued /\ owner[keys[i].hash] = i /\ owner[i] = i
        BY <3>1 DEF KeyInv, KeysAreSound
      <3>3. i <= issued
        BY <3>1, Constants, Generated DEF KeyInv, OwnersExist
      <3>4. rotation' \in [Rotators -> [id : Secrets, hash : Secrets] \cup {None}]
        BY <3>1 DEF DatabaseOK
      <3>5. \A q \in Rotators : rotation'[q] =
              IF q = r THEN [id |-> i, hash |-> keys[i].hash] ELSE rotation[q]
        BY <3>1 DEF DatabaseOK
      <3>6. RotationsAreSound'
        BY <1>0, <3>2, <3>3, <3>5 DEF KeyInv, RotationsAreSound
      <3> QED  BY <3>4, <3>6
    <2> QED  BY <2>1, <2>2
  <1>2. DatabaseOK'
    BY <1>0, <1>1 DEF DatabaseOK
  <1>3. OwnersExist' /\ KeysAreSound' /\ KeysAreKept' /\ TokensAreSound'
    BY <1>0 DEF KeyInv, OwnersExist, KeysAreSound, KeysAreKept, TokensAreSound, Past, Latest
  <1>4. Evolves
    <2>1. now \in Nat
      BY Constants DEF DatabaseOK
    <2> QED  BY <1>0, <2>1, Generated DEF Evolves
  <1> QED  BY <1>1, <1>2, <1>3, <1>4 DEF GoodStep, KeyInv

\* Rows are deleted, by a client or because they have expired.
LEMMA DeletionStep ==
    ASSUME DatabaseOK, KeyInv, (\E t \in Clock : CleanupExpiredTokens(t)) \/ \E i \in Secrets : DeleteAPIKey(i)
    PROVE  GoodStep
  <1>0. UNCHANGED <<now, issued, owner, promise, granted, rotation, changes>>
    BY DEF CleanupExpiredTokens, DeleteAPIKey
  <1>1. /\ now \in Nat /\ Latest \in Nat /\ Latest' = Latest
        /\ None \notin Int /\ \A i \in Secrets : promise[i] \in Int \cup {None}
    BY <1>0, Constants, Clocks DEF DatabaseOK, Instant, Latest
  <1>2. /\ keys' \in [Secrets -> Key \cup {None}] /\ tokens' \in [Secrets -> Instant]
        /\ deleted' \subseteq Secrets /\ deleted \subseteq deleted'
        /\ \A i \in deleted' : i \notin deleted => keys[i] # None /\ keys'[i] = None
        /\ \A i \in Secrets : keys'[i] = keys[i] \/ keys'[i] = None
        /\ \A i \in Secrets : keys'[i] = None /\ keys[i] # None => i \in deleted' \/ Past(keys[i].expires, Latest)
        /\ \A s \in Secrets : tokens'[s] = tokens[s] \/ (tokens'[s] = None /\ tokens[s] < Latest)
    <2>1. CASE \E t \in Clock : CleanupExpiredTokens(t)
      <3>0. PICK t \in Clock : CleanupExpiredTokens(t)
        BY <2>1
      <3>1. /\ tokens' = [s \in Secrets |-> IF Expired(tokens[s], t) THEN None ELSE tokens[s]]
            /\ deleted' = deleted
            /\ \/ keys' = [i \in Secrets |-> IF keys[i] # None /\ Expired(keys[i].expires, t) THEN None
                                             ELSE keys[i]]
               \/ keys' = keys
        BY <3>0 DEF CleanupExpiredTokens
      <3>4. t \in Nat /\ t <= Latest
        BY Clocks
      <3>2. /\ tokens' \in [Secrets -> Instant]
            /\ \A s \in Secrets : tokens'[s] = tokens[s] \/ (tokens'[s] = None /\ tokens[s] < Latest)
        BY <1>1, <3>1, <3>4 DEF Expired, DatabaseOK, Instant
      <3>3. /\ keys' \in [Secrets -> Key \cup {None}]
            /\ \A i \in Secrets : keys'[i] = keys[i] \/ (keys'[i] = None /\ Past(keys[i].expires, Latest))
        <4>1. CASE keys' = keys
          BY <4>1 DEF DatabaseOK
        <4>2. CASE keys' = [i \in Secrets |-> IF keys[i] # None /\ Expired(keys[i].expires, t) THEN None
                                              ELSE keys[i]]
          <5>1. \A i \in Secrets : keys[i] # None => keys[i].expires \in Int \cup {None}
            BY DEF DatabaseOK, Key, Instant
          <5> QED  BY <1>1, <3>4, <4>2, <5>1 DEF DatabaseOK, Expired, Past
        <4> QED  BY <3>1, <4>1, <4>2
      <3> QED  BY <3>1, <3>2, <3>3 DEF DatabaseOK
    <2>2. ASSUME NEW j \in Secrets, DeleteAPIKey(j)
          PROVE  /\ keys' \in [Secrets -> Key \cup {None}] /\ tokens' = tokens
                 /\ deleted' = deleted \cup {j} /\ keys[j] # None /\ keys'[j] = None
                 /\ \A i \in Secrets : i # j => keys'[i] = keys[i]
      BY <2>2 DEF DeleteAPIKey, DatabaseOK
    <2> QED  BY <2>1, <2>2 DEF DatabaseOK
  <1>3. DatabaseOK'
    BY <1>0, <1>2 DEF DatabaseOK
  <1>4. OwnersExist'
    <2>1. \A s \in Secrets : s > issued => keys'[s] = None /\ tokens'[s] = None /\ s \notin deleted'
      BY <1>2 DEF KeyInv, OwnersExist
    <2> QED  BY <1>0, <2>1 DEF KeyInv, OwnersExist
  <1>5. KeysAreSound'
    <2>1. \A i \in Secrets : keys'[i] # None => keys'[i] = keys[i] /\ (i \in deleted' => i \in deleted)
      BY <1>2
    <2> QED  BY <1>0, <2>1 DEF KeyInv, KeysAreSound
  <1>6. KeysAreKept'
    <2>1. \A i \in Secrets : keys[i] # None => keys[i].expires = promise[i]
      BY DEF KeyInv, KeysAreSound
    <2>2. \A i \in Secrets : Past(promise[i], Latest)' <=> Past(promise[i], Latest)
      BY <1>0, <1>1 DEF Past
    <2>3. \A i \in 1..issued : i \in Secrets
      BY Generated
    <2> QED  BY <1>0, <1>2, <2>1, <2>2, <2>3 DEF KeyInv, KeysAreKept
  <1>7. TokensAreSound'
    <2>1. \A i \in 1..issued : i \in Secrets
      BY Generated
    <2> QED  BY <1>0, <1>1, <1>2, <2>1 DEF KeyInv, TokensAreSound
  <1>8. RotationsAreSound'
    BY <1>0 DEF KeyInv, RotationsAreSound
  <1>9. Evolves
    <2>1. \A i \in 1..issued : keys'[i] # None => keys'[i] = keys[i]
      BY <1>2, Generated
    <2> QED  BY <1>0, <1>1, <2>1, Generated DEF Evolves
  <1> QED  BY <1>3, <1>4, <1>5, <1>6, <1>7, <1>8, <1>9 DEF GoodStep, KeyInv

\* A secret is generated for a client, a new key or a key that there was.
LEMMA FreshSecret ==
    ASSUME DatabaseOK, KeyInv, NEW o \in Secrets \cup {OAuthClient}, Issue(o),
           o = OAuthClient \/ o = issued + 1 \/ (o \in 1..issued /\ owner[o] = o)
    PROVE  /\ issued \in Nat /\ issued + 1 \in Secrets /\ issued' = issued + 1 /\ issued' \in 0..MaxSecrets
           /\ owner' \in [Secrets -> Secrets \cup {OAuthClient, None}] /\ owner'[issued + 1] = o
           /\ \A s \in Secrets : s # issued + 1 => owner'[s] = owner[s]
           /\ \A s \in Secrets : s <= issued' =>
                owner'[s] = OAuthClient \/ (owner'[s] \in 1..issued' /\ owner'[owner'[s]] = owner'[s])
           /\ keys[issued + 1] = None /\ tokens[issued + 1] = None /\ issued + 1 \notin deleted
           /\ \A i \in 1..issued' : i \in Secrets /\ (i # issued + 1 => i \in 1..issued)
  <1> DEFINE n == issued + 1
  <1>1. /\ issued \in Nat /\ n \in Secrets /\ issued' = n /\ issued' \in 0..MaxSecrets
        /\ owner' = [owner EXCEPT ![n] = o]
    BY Generated DEF Issue
  <1>2. owner' \in [Secrets -> Secrets \cup {OAuthClient, None}] /\ owner'[n] = o
    BY <1>1 DEF DatabaseOK
  <1>3. \A s \in Secrets : s # n => owner'[s] = owner[s]
    BY <1>1 DEF DatabaseOK
  <1>4. Secrets \subseteq Nat /\ OAuthClient = 0
    BY Constants DEF OAuthClient
  <1>5. ASSUME NEW s \in Secrets, s <= n
        PROVE  owner'[s] = OAuthClient \/ (owner'[s] \in 1..n /\ owner'[owner'[s]] = owner'[s])
    <2>1. CASE s = n
      <3>1. CASE o \in 1..issued /\ owner[o] = o
        <4>1. o \in Secrets /\ o # n /\ o \in 1..n
          BY <1>1, <3>1, Generated
        <4> QED  BY <1>2, <1>3, <2>1, <3>1, <4>1
      <3>2. CASE o = n
        BY <1>1, <1>2, <2>1, <3>2
      <3>3. CASE o = OAuthClient
        BY <1>2, <2>1, <3>3
      <3> QED  BY <3>1, <3>2, <3>3
    <2>2. CASE s # n
      <3>1. s <= issued /\ owner'[s] = owner[s]
        BY <1>1, <1>3, <1>4, <1>5, <2>2
      <3>2. CASE owner[s] = OAuthClient
        BY <3>1, <3>2
      <3>3. CASE owner[s] \in 1..issued /\ owner[owner[s]] = owner[s]
        <4>1. owner[s] \in Secrets /\ owner[s] # n /\ owner[s] \in 1..n
          BY <1>1, <3>3, Generated
        <4> QED  BY <1>3, <3>1, <3>3, <4>1
      <3> QED  BY <3>1, <3>2, <3>3 DEF KeyInv, OwnersExist
    <2> QED  BY <2>1, <2>2
  <1>6. keys[n] = None /\ tokens[n] = None /\ n \notin deleted
    BY <1>1 DEF KeyInv, OwnersExist
  <1>7. ASSUME NEW i \in 1..issued' PROVE i \in Secrets /\ (i # n => i \in 1..issued)
    <2>1. i \in Nat /\ 1 <= i /\ i <= issued + 1 /\ issued + 1 <= MaxSecrets /\ MaxSecrets \in Nat
      BY <1>1, Constants
    <2> QED  BY <1>1, <2>1 DEF Secrets
  <1> QED  BY <1>1, <1>2, <1>3, <1>5, <1>6, <1>7

\* What was sound before a secret is generated is sound after it.
LEMMA OldSecrets ==
    ASSUME DatabaseOK, KeyInv, NEW o \in Secrets \cup {OAuthClient}, Issue(o),
           o = OAuthClient \/ o = issued + 1 \/ (o \in 1..issued /\ owner[o] = o)
    PROVE  /\ \A i \in Secrets : keys[i] # None =>
                /\ i \notin deleted /\ i <= issued /\ owner'[i] = i
                /\ keys[i].hash <= issued' /\ owner'[keys[i].hash] = i
                /\ keys[i].previous # None =>
                     /\ keys[i].previous <= issued' /\ owner'[keys[i].previous] = i /\ keys[i].rotatedAt \in Int
                /\ keys[i].expires = promise[i]
           /\ \A r \in Rotators : rotation[r] # None =>
                /\ rotation[r].id <= issued' /\ owner'[rotation[r].id] = rotation[r].id
                /\ rotation[r].hash <= issued' /\ owner'[rotation[r].hash] = rotation[r].id
  <1>1. /\ issued \in Nat /\ issued' = issued + 1
        /\ \A s \in Secrets : s # issued + 1 => owner'[s] = owner[s]
    BY FreshSecret
  <1>2. Secrets \subseteq Nat
    BY Constants
  <1>3. \A s \in Secrets : s <= issued => owner'[s] = owner[s] /\ s <= issued'
    BY <1>1, <1>2
  <1>4. ASSUME NEW i \in Secrets, keys[i] # None
        PROVE  /\ i \notin deleted /\ i <= issued /\ owner'[i] = i
               /\ keys[i].hash <= issued' /\ owner'[keys[i].hash] = i
               /\ keys[i].previous # None =>
                    /\ keys[i].previous <= issued' /\ owner'[keys[i].previous] = i /\ keys[i].rotatedAt \in Int
               /\ keys[i].expires = promise[i]
    <2>1. keys[i].hash \in Secrets /\ keys[i].previous \in Secrets \cup {None}
      BY <1>4 DEF DatabaseOK, Key
    <2>2. i <= issued
      BY <1>1, <1>2, <1>4 DEF KeyInv, OwnersExist
    <2> QED  BY <1>3, <1>4, <2>1, <2>2 DEF KeyInv, KeysAreSound
  <1>5. ASSUME NEW r \in Rotators, rotation[r] # None
        PROVE  /\ rotation[r].id <= issued' /\ owner'[rotation[r].id] = rotation[r].id
               /\ rotation[r].hash <= issued' /\ owner'[rotation[r].hash] = rotation[r].id
    <2>1. rotation[r].id \in Secrets /\ rotation[r].hash \in Secrets
      BY <1>5 DEF DatabaseOK
    <2> QED  BY <1>3, <1>5, <2>1 DEF KeyInv, RotationsAreSound
  <1> QED  BY <1>4, <1>5

\* A key is created.
LEMMA CreateStep ==
    ASSUME DatabaseOK, KeyInv, NEW d \in Durations, NEW t \in Clock, CreateAPIKey(d, t)
    PROVE  GoodStep
  <1> DEFINE n == issued + 1
             e == IF d = None THEN None ELSE t + ParseDuration(d)
             k == [hash |-> n, previous |-> None, rotatedAt |-> None, expires |-> e]
  <1>1. /\ Issue(n) /\ keys' = [keys EXCEPT ![n] = k] /\ promise' = [promise EXCEPT ![n] = e]
        /\ UNCHANGED <<now, deleted, tokens, granted, rotation, changes>>
    BY DEF CreateAPIKey
  <1>2. n \in Secrets
    BY <1>1, Generated DEF Issue
  <1>3. /\ issued \in Nat /\ issued' = n /\ issued' \in 0..MaxSecrets
        /\ owner' \in [Secrets -> Secrets \cup {OAuthClient, None}] /\ owner'[n] = n
        /\ \A s \in Secrets : s # n => owner'[s] = owner[s]
        /\ \A s \in Secrets : s <= issued' =>
             owner'[s] = OAuthClient \/ (owner'[s] \in 1..issued' /\ owner'[owner'[s]] = owner'[s])
        /\ keys[n] = None /\ tokens[n] = None /\ n \notin deleted
        /\ \A i \in 1..issued' : i \in Secrets /\ (i # n => i \in 1..issued)
    BY <1>1, <1>2, FreshSecret
  <1>4. /\ now \in Nat /\ t \in Nat /\ None \notin Int /\ Secrets \subseteq Nat
        /\ OAuthClient \notin Secrets /\ None \notin Key
    BY Constants, Clocks
  <1>5. e \in Instant
    BY <1>4, DurationIsNumber DEF Instant
  <1>6. k \in Key /\ k # None
    BY <1>2, <1>4, <1>5 DEF Key, Instant
  <1> HIDE DEF e
  <1>7. /\ keys' \in [Secrets -> Key \cup {None}] /\ promise' \in [Secrets -> Instant]
        /\ keys'[n] = k /\ promise'[n] = e
        /\ \A s \in Secrets : s # n => keys'[s] = keys[s] /\ promise'[s] = promise[s]
    BY <1>1, <1>2, <1>5, <1>6 DEF DatabaseOK
  <1>8. DatabaseOK'
    BY <1>1, <1>3, <1>7 DEF DatabaseOK
  <1>9. OwnersExist'
    BY <1>1, <1>3, <1>4, <1>7 DEF KeyInv, OwnersExist
  <1>10. KeysAreSound' /\ RotationsAreSound'
    <2>1. /\ \A i \in Secrets : keys[i] # None =>
               /\ i \notin deleted /\ i <= issued /\ owner'[i] = i
               /\ keys[i].hash <= issued' /\ owner'[keys[i].hash] = i
               /\ keys[i].previous # None =>
                    /\ keys[i].previous <= issued' /\ owner'[keys[i].previous] = i /\ keys[i].rotatedAt \in Int
               /\ keys[i].expires = promise[i]
          /\ \A r \in Rotators : rotation[r] # None =>
               /\ rotation[r].id <= issued' /\ owner'[rotation[r].id] = rotation[r].id
               /\ rotation[r].hash <= issued' /\ owner'[rotation[r].hash] = rotation[r].id
      BY <1>1, <1>2, OldSecrets
    <2>2. RotationsAreSound'
      BY <1>1, <2>1 DEF RotationsAreSound
    <2>3. n <= n
      BY <1>3
    <2>4. KeysAreSound'
      BY <1>1, <1>3, <1>7, <2>1, <2>3 DEF KeysAreSound
    <2> QED  BY <2>2, <2>4
  <1>11. KeysAreKept'
    <2>1. \A i \in 1..issued' : i \in Secrets /\ (i # n => i \in 1..issued)
      BY <1>3
    <2>2. \A i \in Secrets : i # n => (Past(promise[i], Latest)' <=> Past(promise[i], Latest))
      BY <1>1, <1>7 DEF Past, Latest
    <2> QED  BY <1>1, <1>3, <1>6, <1>7, <2>1, <2>2 DEF KeyInv, KeysAreKept
  <1>12. TokensAreSound'
    <2>1. \A i \in 1..issued' : i \in Secrets /\ (i # n => i \in 1..issued)
      BY <1>3
    <2> QED  BY <1>1, <1>2, <1>3, <1>4, <1>7, <2>1 DEF KeyInv, TokensAreSound, Latest
  <1>13. Evolves
    <2>1. \A i \in 1..issued : i \in Secrets /\ i # n
      BY <1>3, Generated
    <2> QED  BY <1>1, <1>3, <1>4, <1>7, <2>1 DEF Evolves
  <1> QED  BY <1>8, <1>9, <1>10, <1>11, <1>12, <1>13 DEF GoodStep, KeyInv

\* A token is handed out.
LEMMA TokenStep ==
    ASSUME DatabaseOK, KeyInv, NEW t \in Clock, ExchangeToken(t)
    PROVE  GoodStep
  <1> DEFINE n == issued + 1
             e == t + TokenExpiry
  <1>1. /\ Issue(OAuthClient) /\ tokens' = [tokens EXCEPT ![n] = e] /\ promise' = [promise EXCEPT ![n] = e]
        /\ UNCHANGED <<now, keys, deleted, granted, rotation, changes>>
    BY DEF ExchangeToken
  <1>2. n \in Secrets
    BY <1>1, Generated DEF Issue
  <1>3. /\ issued \in Nat /\ issued' = n /\ issued' \in 0..MaxSecrets
        /\ owner' \in [Secrets -> Secrets \cup {OAuthClient, None}] /\ owner'[n] = OAuthClient
        /\ \A s \in Secrets : s # n => owner'[s] = owner[s]
        /\ \A s \in Secrets : s <= issued' =>
             owner'[s] = OAuthClient \/ (owner'[s] \in 1..issued' /\ owner'[owner'[s]] = owner'[s])
        /\ keys[n] = None /\ tokens[n] = None /\ n \notin deleted
        /\ \A i \in 1..issued' : i \in Secrets /\ (i # n => i \in 1..issued)
    BY <1>1, FreshSecret
  <1>4. now \in Nat /\ t \in Nat /\ None \notin Int /\ Secrets \subseteq Nat /\ OAuthClient \notin Secrets
    BY Constants, Clocks
  <1>5. e \in Int /\ e \in Instant
    BY <1>4, Constants DEF Instant
  <1> HIDE DEF e
  <1>7. /\ tokens' \in [Secrets -> Instant] /\ promise' \in [Secrets -> Instant]
        /\ tokens'[n] = e /\ promise'[n] = e
        /\ \A s \in Secrets : s # n => tokens'[s] = tokens[s] /\ promise'[s] = promise[s]
    BY <1>1, <1>2, <1>5 DEF DatabaseOK
  <1>8. DatabaseOK'
    BY <1>1, <1>3, <1>7 DEF DatabaseOK
  <1>9. OwnersExist'
    BY <1>1, <1>3, <1>4, <1>7 DEF KeyInv, OwnersExist
  <1>10. KeysAreSound' /\ RotationsAreSound'
    <2>1. /\ \A i \in Secrets : keys[i] # None =>
               /\ i \notin deleted /\ i <= issued /\ owner'[i] = i
               /\ keys[i].hash <= issued' /\ owner'[keys[i].hash] = i
               /\ keys[i].previous # None =>
                    /\ keys[i].previous <= issued' /\ owner'[keys[i].previous] = i /\ keys[i].rotatedAt \in Int
               /\ keys[i].expires = promise[i]
          /\ \A r \in Rotators : rotation[r] # None =>
               /\ rotation[r].id <= issued' /\ owner'[rotation[r].id] = rotation[r].id
               /\ rotation[r].hash <= issued' /\ owner'[rotation[r].hash] = rotation[r].id
      BY <1>1, OldSecrets
    <2>2. RotationsAreSound'
      BY <1>1, <2>1 DEF RotationsAreSound
    <2>3. \A i \in Secrets : keys[i] # None => i # n
      BY <1>3
    <2>4. KeysAreSound'
      BY <1>1, <1>7, <2>1, <2>3 DEF KeysAreSound
    <2> QED  BY <2>2, <2>4
  <1>11. KeysAreKept'
    <2>1. \A i \in 1..issued' : i \in Secrets /\ (i # n => i \in 1..issued)
      BY <1>3
    <2>2. \A i \in Secrets : i # n => (Past(promise[i], Latest)' <=> Past(promise[i], Latest))
      BY <1>1, <1>7 DEF Past, Latest
    <2>3. OAuthClient # n
      BY <1>2, <1>4
    <2> QED  BY <1>1, <1>3, <1>7, <2>1, <2>2, <2>3 DEF KeyInv, KeysAreKept
  <1>12. TokensAreSound'
    <2>1. \A i \in 1..issued' : i \in Secrets /\ (i # n => i \in 1..issued)
      BY <1>3
    <2> QED  BY <1>1, <1>2, <1>3, <1>5, <1>7, <2>1 DEF KeyInv, TokensAreSound, Latest
  <1>13. Evolves
    <2>1. \A i \in 1..issued : i \in Secrets /\ i # n
      BY <1>3, Generated
    <2> QED  BY <1>1, <1>3, <1>4, <1>7, <2>1 DEF Evolves
  <1> QED  BY <1>8, <1>9, <1>10, <1>11, <1>12, <1>13 DEF GoodStep, KeyInv

\* A key gets a new secret, if it is still there.
LEMMA RotateStep ==
    ASSUME DatabaseOK, KeyInv, NEW r \in Rotators, NEW t \in Clock, RotateAPIKey(r, t)
    PROVE  GoodStep
  <1> DEFINE n == issued + 1
             j == rotation[r].id
             k == [keys[j] EXCEPT !.hash = n, !.previous = rotation[r].hash, !.rotatedAt = t]
  <1>1. /\ rotation[r] # None /\ Issue(j) /\ keys' = RotatedKey(r, n, t)
        /\ rotation' = [rotation EXCEPT ![r] = None]
        /\ UNCHANGED <<now, promise, deleted, tokens, granted, changes>>
    BY DEF RotateAPIKey
  <1>2. /\ j \in Secrets /\ rotation[r].hash \in Secrets /\ j \in 1..issued /\ owner[j] = j
        /\ rotation[r].hash <= issued
    <2>1. j \in Secrets /\ rotation[r].hash \in Secrets
      BY <1>1 DEF DatabaseOK
    <2> QED  BY <1>1, <2>1, Generated DEF KeyInv, RotationsAreSound
  <1>3. /\ issued \in Nat /\ n \in Secrets /\ issued' = n /\ issued' \in 0..MaxSecrets
        /\ owner' \in [Secrets -> Secrets \cup {OAuthClient, None}] /\ owner'[n] = j
        /\ \A s \in Secrets : s # n => owner'[s] = owner[s]
        /\ \A s \in Secrets : s <= issued' =>
             owner'[s] = OAuthClient \/ (owner'[s] \in 1..issued' /\ owner'[owner'[s]] = owner'[s])
        /\ keys[n] = None /\ tokens[n] = None /\ n \notin deleted
        /\ \A i \in 1..issued' : i \in Secrets /\ (i # n => i \in 1..issued)
    BY <1>1, <1>2, FreshSecret
  <1>4. /\ now \in Nat /\ t \in Nat /\ None \notin Int /\ Secrets \subseteq Nat
        /\ OAuthClient \notin Secrets /\ None \notin Key
    BY Constants, Clocks
  <1>5. j # n
    BY <1>2, <1>3
  <1>6. keys' = [keys EXCEPT ![j] = IF keys[j] = None THEN None ELSE k]
    BY <1>1, <1>2 DEF RotatedKey, DatabaseOK
  <1>7. keys[j] # None => /\ k \in Key /\ k # None /\ k.hash = n /\ k.previous = rotation[r].hash
                          /\ k.expires = keys[j].expires /\ k.rotatedAt = t /\ t \in Int
    <2>1. keys[j] # None => keys[j] \in Key
      BY <1>2 DEF DatabaseOK
    <2>2. n \in Secrets /\ rotation[r].hash \in Secrets \cup {None} /\ t \in Instant
      BY <1>2, <1>3, <1>4 DEF Instant
    <2>3. keys[j] # None => /\ k \in Key /\ k.hash = n /\ k.previous = rotation[r].hash
                            /\ k.expires = keys[j].expires /\ k.rotatedAt = t
      BY <2>1, <2>2 DEF Key
    <2> QED  BY <1>4, <2>3
  <1> HIDE DEF k
  <1>8. /\ keys' \in [Secrets -> Key \cup {None}]
        /\ keys'[j] = IF keys[j] = None THEN None ELSE k
        /\ \A s \in Secrets : s # j => keys'[s] = keys[s]
    BY <1>2, <1>6, <1>7 DEF DatabaseOK
  <1>9. \A i \in Secrets : keys'[i] = None <=> keys[i] = None
    BY <1>7, <1>8
  <1>10. /\ rotation' \in [Rotators -> [id : Secrets, hash : Secrets] \cup {None}]
         /\ \A q \in Rotators : rotation'[q] # None => rotation'[q] = rotation[q]
    BY <1>1 DEF DatabaseOK
  <1>11. DatabaseOK'
    BY <1>1, <1>3, <1>8, <1>10 DEF DatabaseOK
  <1>12. OwnersExist'
    <2>1. \A s \in Secrets : s > issued' => keys'[s] = None /\ tokens'[s] = None /\ s \notin deleted'
      BY <1>1, <1>3, <1>4, <1>9 DEF KeyInv, OwnersExist
    <2> QED  BY <1>3, <2>1 DEF OwnersExist
  <1>13. KeysAreSound' /\ RotationsAreSound'
    <2>1. /\ \A i \in Secrets : keys[i] # None =>
               /\ i \notin deleted /\ i <= issued /\ owner'[i] = i
               /\ keys[i].hash <= issued' /\ owner'[keys[i].hash] = i
               /\ keys[i].previous # None =>
                    /\ keys[i].previous <= issued' /\ owner'[keys[i].previous] = i /\ keys[i].rotatedAt \in Int
               /\ keys[i].expires = promise[i]
          /\ \A q \in Rotators : rotation[q] # None =>
               /\ rotation[q].id <= issued' /\ owner'[rotation[q].id] = rotation[q].id
               /\ rotation[q].hash <= issued' /\ owner'[rotation[q].hash] = rotation[q].id
      BY <1>1, <1>2, OldSecrets
    <2>2. RotationsAreSound'
      BY <1>10, <2>1 DEF RotationsAreSound
    <2>3. n <= n
      BY <1>3
    <2>4. ASSUME NEW i \in Secrets, keys'[i] # None
          PROVE  /\ i \notin deleted' /\ owner'[i] = i
                 /\ keys'[i].hash <= issued' /\ owner'[keys'[i].hash] = i
                 /\ keys'[i].previous # None =>
                      /\ keys'[i].previous <= issued' /\ owner'[keys'[i].previous] = i /\ keys'[i].rotatedAt \in Int
                 /\ keys'[i].expires = promise'[i]
      <3>1. CASE i = j
        BY <1>1, <1>3, <1>7, <1>8, <2>1, <2>3, <2>4, <3>1
      <3>2. CASE i # j
        BY <1>1, <1>8, <2>1, <2>4, <3>2
      <3> QED  BY <3>1, <3>2
    <2>5. KeysAreSound'
      BY <2>4 DEF KeysAreSound
    <2> QED  BY <2>2, <2>5
  <1>14. KeysAreKept'
    <2>1. \A i \in 1..issued' : i \in Secrets /\ (i # n => i \in 1..issued)
      BY <1>3
    <2>2. \A i \in Secrets : Past(promise[i], Latest)' <=> Past(promise[i], Latest)
      BY <1>1 DEF Past, Latest
    <2> QED  BY <1>1, <1>3, <1>5, <1>9, <2>1, <2>2 DEF KeyInv, KeysAreKept
  <1>15. TokensAreSound'
    <2>1. \A i \in 1..issued' : i \in Secrets /\ (i # n => i \in 1..issued)
      BY <1>3
    <2> QED  BY <1>1, <1>2, <1>3, <1>4, <2>1 DEF KeyInv, TokensAreSound, Latest
  <1>16. Evolves
    <2>1. \A i \in 1..issued : i \in Secrets /\ i # n
      BY <1>3, Generated
    <2>2. n > issued
      BY <1>3
    <2> QED  BY <1>1, <1>3, <1>4, <1>7, <1>8, <2>1, <2>2 DEF Evolves
  <1> QED  BY <1>11, <1>12, <1>13, <1>14, <1>15, <1>16 DEF GoodStep, KeyInv

\* Whatever is managed, the database stays sound.
LEMMA ManageStep ==
    ASSUME DatabaseOK, KeyInv, Manage
    PROVE  GoodStep
  <1>1. CASE Tick
    <2>1. now \in Times /\ now' \in Times /\ now <= now' /\ Times \subseteq Nat
      BY <1>1, Constants DEF Tick, DatabaseOK
    <2> QED  BY <1>1, <2>1, TimeStep DEF Tick, DatabaseOK
  <1>2. CASE \E g \in GrantSets : ChangeGrants(g)
    <2>1. PICK g \in GrantSets : ChangeGrants(g)
      BY <1>2
    <2>2. changes' \in 0..MaxChanges
      BY <2>1, Constants DEF ChangeGrants, DatabaseOK
    <2>3. now \in Nat /\ now' = now
      BY <2>1, Constants DEF ChangeGrants, DatabaseOK
    <2>4. now <= now'
      BY <2>3
    <2> QED  BY <2>1, <2>2, <2>3, <2>4, TimeStep DEF ChangeGrants, DatabaseOK
  <1> QED
    BY <1>1, <1>2, RotationStep, DeletionStep, CreateStep, TokenStep, RotateStep DEF Manage

----------------------------------------------------------------------------
(***************************************************************************)
(* What a secret is good for                                               *)
(***************************************************************************)
\* The key of the secret s is neither deleted nor expired at the time t.
Live(s, t) == owner[s] # OAuthClient /\ owner[s] \notin deleted /\ ~Past(promise[owner[s]], t)

\* GoodFor, one kind at a time.
LEMMA WhatIsGood ==
    ASSUME NEW s, NEW t
    PROVE  /\ "key" \in GoodFor(s, t) <=>
                /\ Live(s, t)
                /\ \/ keys[owner[s]] = None \/ keys[owner[s]].hash = s
                   \/ /\ keys[owner[s]].previous = s
                      /\ keys[owner[s]].rotatedAt > t - RotationGracePeriod
           /\ "current" \in GoodFor(s, t) <=>
                /\ Live(s, t) /\ promise[owner[s]] # t
                /\ keys[owner[s]] = None \/ keys[owner[s]].hash = s
           /\ "token" \in GoodFor(s, t) <=> owner[s] = OAuthClient /\ promise[s] > t
  BY DEF GoodFor, Live

\* Each scheme leads to one lookup, and what is accepted follows from it.
LEMMA WhatIsAccepted ==
    ASSUME NEW scheme
    PROVE  /\ FirstLookup(scheme) \in {"streamKey", "token", "current", "refuse"}
           /\ FirstLookup(scheme) = "streamKey" <=> scheme = "stream"
           /\ FirstLookup(scheme) = "streamKey" => Accepts(scheme) = {"current", "token"}
           /\ FirstLookup(scheme) = "token" => Accepts(scheme) = {"token"}
           /\ FirstLookup(scheme) = "current" => Accepts(scheme) = {"key"}
           /\ FirstLookup(scheme) = "refuse" => Accepts(scheme) = {}
  <1>1. FirstLookup(scheme) \in {"streamKey", "token", "current", "refuse"}
    BY DEF FirstLookup
  <1>2. FirstLookup(scheme) = "streamKey" <=> scheme = "stream"
    BY DEF FirstLookup
  <1>3. FirstLookup(scheme) = "streamKey" => Accepts(scheme) = {"current", "token"}
    BY DEF Accepts
  <1>4. FirstLookup(scheme) = "token" => Accepts(scheme) = {"token"}
    BY DEF Accepts
  <1>5. FirstLookup(scheme) = "current" => Accepts(scheme) = {"key"}
    BY DEF Accepts
  <1>6. FirstLookup(scheme) = "refuse" => Accepts(scheme) = {}
    BY DEF Accepts
  <1> QED  BY <1>1, <1>2, <1>3, <1>4, <1>5, <1>6

\* The two halves of what is true of a caller do not mix.
LEMMA WhatIsTrue ==
    ASSUME NEW c, NEW t
    PROVE  /\ \A k \in Accepts(session[c].call.scheme) :
                k \in TrueOf(c, t) <=> k \in GoodFor(session[c].secret, t)
           /\ \A q \in Permissions : q \in TrueOf(c, t) <=>
                /\ NamespaceOf[session[c].call] # None /\ Includes(q, session[c].call.required)
                /\ Holds(Declared(session[c].secret), NamespaceOf[session[c].call], q)
           /\ TrueOf(c, t) \subseteq Accepts(session[c].call.scheme) \cup Permissions
  <1>1. \A k \in Accepts(session[c].call.scheme) : k \in {"key", "current", "token"}
    BY WhatIsAccepted
  <1>2. \A k \in Accepts(session[c].call.scheme) : k \notin Permissions
    BY <1>1 DEF Permissions
  <1> QED  BY <1>2 DEF TrueOf

\* What is arguably and what is surely true of a caller, in the same terms.
LEMMA WhatIsTrueNow ==
    ASSUME NEW c
    PROVE  /\ \A k \in Accepts(session[c].call.scheme) :
                /\ k \in ArguablyTrueOf(c) <=> k \in GoodFor(session[c].secret, now)
                /\ k \in SurelyTrueOf(c) <=> k \in GoodFor(session[c].secret, Latest)
           /\ \A q \in Permissions :
                LET held == /\ NamespaceOf[session[c].call] # None /\ Includes(q, session[c].call.required)
                            /\ Holds(Declared(session[c].secret), NamespaceOf[session[c].call], q)
                IN  (q \in ArguablyTrueOf(c) <=> held) /\ (q \in SurelyTrueOf(c) <=> held)
  BY WhatIsTrue DEF ArguablyTrueOf, SurelyTrueOf

\* The key of a secret is one that was created, and there is its row for as
\* long as it is live by every clock.
LEMMA KeyOfSecret ==
    ASSUME DatabaseOK, KeyInv, NEW s \in 1..issued, owner[s] # OAuthClient
    PROVE  /\ owner[s] \in 1..issued /\ owner[s] \in Secrets
           /\ Live(s, Latest) => keys[owner[s]] # None
  <1>1. s \in Secrets /\ s <= issued
    BY Generated
  <1>2. owner[s] \in 1..issued /\ owner[owner[s]] = owner[s]
    BY <1>1 DEF KeyInv, OwnersExist
  <1>3. owner[s] \in Secrets
    BY <1>2, Generated
  <1>4. keys[owner[s]] = None => owner[s] \in deleted \/ Past(promise[owner[s]], Latest)
    BY <1>2 DEF KeyInv, KeysAreKept
  <1> QED  BY <1>2, <1>3, <1>4 DEF Live

\* Whose row holds a secret is its owner.
LEMMA RowOfSecret ==
    ASSUME DatabaseOK, KeyInv, NEW s, NEW i \in Secrets, keys[i] # None, s # None,
           keys[i].hash = s \/ keys[i].previous = s
    PROVE  owner[s] = i /\ i # OAuthClient /\ i \notin deleted /\ keys[i].expires = promise[i]
  BY Constants DEF KeyInv, KeysAreSound

\* A token that is found is good by the slowest clock, and one that is good by the
\* fastest is found.
LEMMA TokenFound ==
    ASSUME DatabaseOK, KeyInv, NEW c, NEW t \in Clock, session[c].secret \in 1..issued
    PROVE  /\ TokenRows(c, t) # {} => "token" \in GoodFor(session[c].secret, now)
           /\ "token" \in GoodFor(session[c].secret, Latest) => TokenRows(c, t) # {}
  <1> DEFINE s == session[c].secret
  <1>1. s \in Secrets /\ s \in 1..issued
    BY Generated
  <1>2. now \in Nat /\ Latest \in Nat /\ t \in Nat /\ now <= t /\ t <= Latest /\ None \notin Int
    BY Constants, Clocks
  <1>3. TokenRows(c, t) # {} <=> tokens[s] # None /\ tokens[s] > t
    BY <1>1 DEF TokenRows
  <1>4. /\ tokens[s] # None => owner[s] = OAuthClient
        /\ owner[s] = OAuthClient =>
             promise[s] \in Int /\ (tokens[s] = promise[s] \/ (tokens[s] = None /\ promise[s] < Latest))
    BY <1>1 DEF KeyInv, TokensAreSound
  <1>5. /\ "token" \in GoodFor(s, now) <=> owner[s] = OAuthClient /\ promise[s] > now
        /\ "token" \in GoodFor(s, Latest) <=> owner[s] = OAuthClient /\ promise[s] > Latest
    BY WhatIsGood
  <1>6. tokens[s] # None /\ tokens[s] > t => owner[s] = OAuthClient /\ promise[s] > now
    BY <1>2, <1>4
  <1>7. owner[s] = OAuthClient /\ promise[s] > Latest => tokens[s] # None /\ tokens[s] > t
    BY <1>2, <1>4
  <1> QED  BY <1>3, <1>5, <1>6, <1>7

\* The same of a current key that a stream finds.
LEMMA StreamKeyFound ==
    ASSUME DatabaseOK, KeyInv, NEW c, NEW t \in Clock, session[c].secret \in 1..issued
    PROVE  LET rows == {i \in CurrentRows(c) : keys[i].expires = None \/ keys[i].expires > t} IN
           /\ rows # {} => "current" \in GoodFor(session[c].secret, now)
           /\ "current" \in GoodFor(session[c].secret, Latest) => rows # {}
  <1> DEFINE s == session[c].secret
             Rows == {i \in CurrentRows(c) : keys[i].expires = None \/ keys[i].expires > t}
  <1>1. s \in Secrets /\ s \in 1..issued /\ s # None
    BY Generated, Constants
  <1>2. /\ now \in Nat /\ Latest \in Nat /\ t \in Nat /\ now <= t /\ t <= Latest
        /\ None \notin Int /\ \A i \in Secrets : promise[i] \in Int \cup {None}
    BY Constants, Clocks DEF DatabaseOK, Instant
  <1>3. ASSUME NEW i \in Rows PROVE "current" \in GoodFor(s, now)
    <2>1. /\ i \in Secrets /\ keys[i] # None /\ keys[i].hash = s
          /\ keys[i].expires = None \/ keys[i].expires > t
      BY <1>3 DEF CurrentRows
    <2>2. owner[s] = i /\ i # OAuthClient /\ i \notin deleted /\ keys[i].expires = promise[i]
      BY <1>1, <2>1, RowOfSecret
    <2>3. ~Past(promise[i], now) /\ promise[i] # now
      BY <1>2, <2>1, <2>2 DEF Past
    <2> QED  BY <2>1, <2>2, <2>3, WhatIsGood DEF Live
  <1>4. ASSUME "current" \in GoodFor(s, Latest) PROVE Rows # {}
    <2> DEFINE i == owner[s]
    <2>1. Live(s, Latest) /\ promise[i] # Latest /\ (keys[i] = None \/ keys[i].hash = s)
      BY <1>4, WhatIsGood
    <2>2. i \in Secrets /\ keys[i] # None
      BY <1>1, <2>1, KeyOfSecret DEF Live
    <2>3. keys[i].expires = promise[i]
      BY <2>2 DEF KeyInv, KeysAreSound
    <2>4. promise[i] = None \/ promise[i] > t
      BY <1>2, <2>1, <2>2 DEF Live, Past
    <2>5. i \in CurrentRows(c)
      BY <2>1, <2>2 DEF CurrentRows
    <2> QED  BY <2>3, <2>4, <2>5
  <1> QED  BY <1>3, <1>4

\* A key that is found, current or rotated, is good by the slowest clock unless it
\* has expired even by that.
LEMMA KeyFound ==
    ASSUME DatabaseOK, KeyInv, NEW c, NEW t \in Clock, session[c].secret \in 1..issued,
           NEW i \in CurrentRows(c) \cup PreviousRows(c, t)
    PROVE  /\ i \in Secrets /\ owner[session[c].secret] = i /\ i # OAuthClient
           /\ keys[i] \in Key /\ keys[i].expires = promise[i]
           /\ Past(keys[i].expires, now) \/ "key" \in GoodFor(session[c].secret, now)
  <1> DEFINE s == session[c].secret
  <1>1. s # None /\ now \in Nat /\ t \in Nat /\ now <= t
    BY Generated, Constants, Clocks
  <1>2. /\ i \in Secrets /\ keys[i] # None
        /\ \/ keys[i].hash = s
           \/ keys[i].previous = s /\ keys[i].rotatedAt > t - RotationGracePeriod
    BY DEF CurrentRows, PreviousRows
  <1>3. owner[s] = i /\ i # OAuthClient /\ i \notin deleted /\ keys[i].expires = promise[i]
    BY <1>1, <1>2, RowOfSecret
  <1>4. keys[i] \in Key
    BY <1>2 DEF DatabaseOK
  <1>5. \/ keys[i].hash = s
        \/ keys[i].previous = s /\ keys[i].rotatedAt > now - RotationGracePeriod
    <2>1. keys[i].previous = s => keys[i].rotatedAt \in Int
      BY <1>1, <1>2 DEF KeyInv, KeysAreSound
    <2> QED  BY <1>1, <1>2, <2>1 DEF RotationGracePeriod
  <1>6. Past(keys[i].expires, now) \/ "key" \in GoodFor(s, now)
    BY <1>2, <1>3, <1>5, WhatIsGood DEF Live
  <1> QED  BY <1>2, <1>3, <1>4, <1>6

\* If the secret is not a current one and no rotated key is found, it is good for
\* no key by the fastest clock: it does not slip through between the two statements.
LEMMA NoKeyFound ==
    ASSUME DatabaseOK, KeyInv, NEW c, NEW t \in Clock, session[c].secret \in 1..issued, NotCurrent(c),
           PreviousRows(c, t) = {}
    PROVE  "key" \notin GoodFor(session[c].secret, Latest)
  <1> DEFINE s == session[c].secret
             i == owner[s]
  <1> SUFFICES ASSUME "key" \in GoodFor(s, Latest) PROVE FALSE
    OBVIOUS
  <1>1. /\ Live(s, Latest)
        /\ \/ keys[i] = None \/ keys[i].hash = s
           \/ keys[i].previous = s /\ keys[i].rotatedAt > Latest - RotationGracePeriod
    BY WhatIsGood
  <1>2. i # OAuthClient /\ i \in Secrets /\ keys[i] # None
    BY <1>1, KeyOfSecret DEF Live
  <1>3. keys[i].hash # s
    BY <1>2 DEF NotCurrent
  <1>4. s # None /\ Latest \in Nat /\ t \in Nat /\ t <= Latest
    BY Generated, Constants, Clocks
  <1>5. keys[i].rotatedAt \in Int /\ keys[i].previous = s
    BY <1>1, <1>2, <1>3, <1>4 DEF KeyInv, KeysAreSound
  <1>6. keys[i].rotatedAt > t - RotationGracePeriod
    BY <1>1, <1>2, <1>3, <1>4, <1>5 DEF RotationGracePeriod
  <1>7. i \in PreviousRows(c, t)
    BY <1>2, <1>5, <1>6 DEF PreviousRows
  <1> QED  BY <1>7

----------------------------------------------------------------------------
(***************************************************************************)
(* A step of a caller                                                      *)
(***************************************************************************)
Replies == [code : {"ok", "unauthorized", "forbidden"}, unlucky : BOOLEAN] \cup {None}

\* The conjunct of TypeOK about the session of c.
SessionOK(c) ==
    \/ session[c] = Idle
    \/ /\ session[c].call \in Calls /\ session[c].secret \in 1..issued
       /\ session[c].expires \in Instant /\ session[c].unlucky \in BOOLEAN
       /\ \/ session[c].at \in Lookups \cup {"refuse"} /\ session[c].who = None
          \/ session[c].at \in {"expiry", "authz"} /\ session[c].who \in Principal

\* When c may be let in, turned away and denied the permission.
MayPass(c) ==
    LET call == session[c].call IN
    /\ ever[c] \cap Accepts(call.scheme) # {}
    /\ call.scheme # "stream" =>
         /\ session[c].who.id = owner[session[c].secret]
         /\ Unchecked(call) \/ ever[c] \cap Permissions # {}

MayRefuse(c) == always[c] \cap Accepts(session[c].call.scheme) = {}

MayForbid(c) ==
    /\ ~Unchecked(session[c].call)
    /\ session[c].who.type # "api_key_rotated" => always[c] \cap Permissions = {}

\* What every step of a caller c comes to: it leaves the others alone, keeps
\* what is known of c, and if it answers, then rightly.
GoodAnswer(c) ==
    /\ answer'[c].code = "ok" => MayPass(c)
    /\ answer'[c].code = "unauthorized" /\ ~answer'[c].unlucky => MayRefuse(c)
    /\ answer'[c].code = "forbidden" /\ ~answer'[c].unlucky => MayForbid(c)

CallerStep(c) ==
    /\ session' \in [Callers -> Session] /\ answer' \in [Callers -> Replies]
    /\ \A d \in Callers : d # c => session'[d] = session[d]
    /\ SessionOK(c)' /\ CallerInv(c)'
    /\ ~Busy(c)' /\ Busy(c) => GoodAnswer(c)

\* What is known of a caller that has a request under way.
LEMMA Underway ==
    ASSUME IndInv, NEW c \in Callers, Busy(c)
    PROVE  /\ DatabaseOK /\ KeyInv /\ CallerInv(c) /\ session[c] \in Session
           /\ session[c].call \in Calls /\ session[c].secret \in 1..issued /\ session[c].secret \in Secrets
           /\ session[c].expires \in Instant /\ session[c].unlucky \in BOOLEAN
           /\ \/ session[c].at \in Lookups \cup {"refuse"} /\ session[c].who = None
              \/ session[c].at \in {"expiry", "authz"} /\ session[c].who \in Principal
           /\ answer \in [Callers -> Replies] /\ session \in [Callers -> Session]
  <1>1. DatabaseOK /\ CallersOK
    BY TypeParts DEF IndInv
  <1>2. session[c] # Idle
    BY DEF Busy, Idle
  <1> QED  BY <1>1, <1>2, Generated DEF IndInv, CallersOK, Replies

\* A caller that has no request under way has a session too.
LEMMA IdleIsSession == Idle \in Session
  <1>1. <<>> \in Seq(Permissions)
    OBVIOUS
  <1> QED  BY <1>1 DEF Idle, Session, Instant

\* An answer ends the request.
LEMMA AnswerStep ==
    ASSUME IndInv, NEW c \in Callers, Busy(c), NEW code \in {"ok", "unauthorized", "forbidden"},
           NEW fails \in BOOLEAN, Reply(c, code, fails),
           code = "ok" => MayPass(c),
           code = "unauthorized" /\ ~session[c].unlucky /\ ~fails => MayRefuse(c),
           code = "forbidden" /\ ~session[c].unlucky /\ ~fails => MayForbid(c)
    PROVE  CallerStep(c)
  <1>1. /\ session \in [Callers -> Session] /\ answer \in [Callers -> Replies]
        /\ session[c].unlucky \in BOOLEAN
    BY Underway
  <1> DEFINE bad == session[c].unlucky \/ fails
  <1>2. /\ bad \in BOOLEAN /\ answer' = [answer EXCEPT ![c] = [code |-> code, unlucky |-> bad]]
        /\ session' = [session EXCEPT ![c] = Idle]
    BY <1>1 DEF Reply
  <1>3. ~bad => ~session[c].unlucky /\ ~fails
    OBVIOUS
  <1> HIDE DEF bad
  <1>4. answer' \in [Callers -> Replies]
    BY <1>1, <1>2 DEF Replies
  <1>5. answer'[c].code = code /\ answer'[c].unlucky = bad
    BY <1>1, <1>2
  <1>6. /\ session' \in [Callers -> Session] /\ session'[c] = Idle
        /\ \A d \in Callers : d # c => session'[d] = session[d]
    BY <1>1, <1>2, IdleIsSession
  <1>7. ~Busy(c)'
    BY <1>6 DEF Busy, Idle
  <1>8. GoodAnswer(c)
    BY <1>3, <1>5 DEF GoodAnswer
  <1> QED  BY <1>4, <1>6, <1>7, <1>8 DEF CallerStep, SessionOK, CallerInv

\* What is true of a request depends on the database and on what it asks for.
LEMMA SameTruth ==
    ASSUME NEW c \in Callers, UNCHANGED <<now, keys, owner, promise, deleted, granted>>,
           session'[c].call = session[c].call, session'[c].secret = session[c].secret
    PROVE  ArguablyTrueOf(c)' = ArguablyTrueOf(c) /\ SurelyTrueOf(c)' = SurelyTrueOf(c)
  <1>1. /\ session'[c].call = session[c].call /\ session'[c].secret = session[c].secret
        /\ now' = now /\ Latest' = Latest
    BY DEF Latest
  <1>2. ArguablyTrueOf(c)' = ArguablyTrueOf(c)
    BY <1>1 DEF ArguablyTrueOf, TrueOf, GoodFor, Past, Holds, Declared
  <1>3. SurelyTrueOf(c)' = SurelyTrueOf(c)
    BY <1>1 DEF SurelyTrueOf, TrueOf, GoodFor, Past, Holds, Declared
  <1> QED  BY <1>2, <1>3

\* A request that goes on: what is true of it does not change.
LEMMA MoveStep ==
    ASSUME IndInv, NEW c \in Callers, Busy(c), UNCHANGED database, Observe,
           NEW x \in Session, session' = [session EXCEPT ![c] = x], UNCHANGED answer,
           x.call = session[c].call, x.secret = session[c].secret, x.at # "idle"
    PROVE  /\ session' \in [Callers -> Session] /\ answer' \in [Callers -> Replies]
           /\ \A d \in Callers : d # c => session'[d] = session[d]
           /\ session'[c] = x /\ Busy(c)' /\ UNCHANGED <<now, issued, keys, owner, promise, deleted>>
           /\ ever'[c] = ever[c] /\ always'[c] = always[c] /\ HistoryIsCurrent(c)'
  <1>1. session \in [Callers -> Session] /\ answer \in [Callers -> Replies] /\ HistoryIsCurrent(c)
    BY Underway DEF CallerInv
  <1>2. UNCHANGED <<now, issued, keys, owner, promise, deleted, granted>>
    BY DEF database, keyVars
  <1>3. /\ session' \in [Callers -> Session] /\ session'[c] = x
        /\ \A d \in Callers : d # c => session'[d] = session[d]
    BY <1>1
  <1>4. Busy(c)'
    BY <1>3 DEF Busy
  <1>5. ArguablyTrueOf(c)' = ArguablyTrueOf(c) /\ SurelyTrueOf(c)' = SurelyTrueOf(c)
    BY <1>2, <1>3, SameTruth
  <1>6. /\ ever'[c] = ever[c] \cup ArguablyTrueOf(c)'
        /\ always'[c] = always[c] \cap SurelyTrueOf(c)'
    BY <1>4 DEF Observe
  <1>7. ever'[c] = ever[c] /\ always'[c] = always[c]
    BY <1>1, <1>5, <1>6 DEF HistoryIsCurrent
  <1>8. HistoryIsCurrent(c)'
    BY <1>1, <1>5, <1>7 DEF HistoryIsCurrent
  <1> QED  BY <1>1, <1>2, <1>3, <1>4, <1>7, <1>8

\* A request begins.
LEMMA BeginStep ==
    ASSUME IndInv, NEW c \in Callers, UNCHANGED database, Observe,
           NEW r \in Calls, NEW s \in Secrets, Begin(c, r, s)
    PROVE  CallerStep(c)
  <1> DEFINE first == FirstLookup(r.scheme)
             x == [Idle EXCEPT !.at = first, !.call = r, !.secret = s]
  <1>1. DatabaseOK /\ session \in [Callers -> Session] /\ answer \in [Callers -> Replies]
    BY TypeParts DEF IndInv, CallersOK, Replies
  <1>2. /\ session[c].at = "idle" /\ s <= issued /\ session' = [session EXCEPT ![c] = x]
        /\ answer' = [answer EXCEPT ![c] = None]
    BY DEF Begin
  <1>3. first \in {"streamKey", "token", "current", "refuse"}
    BY WhatIsAccepted
  <1>4. /\ x.at = first /\ x.call = r /\ x.secret = s /\ x.who = None /\ x.expires = None
        /\ x.unlucky = FALSE
    BY DEF Idle
  <1>5. x \in Session
    <2>1. <<>> \in Seq(Permissions)
      OBVIOUS
    <2> QED  BY <1>3, <2>1 DEF Idle, Session, Instant, Lookups
  <1> HIDE DEF x
  <1>6. /\ session' \in [Callers -> Session] /\ session'[c] = x /\ answer' \in [Callers -> Replies]
        /\ \A d \in Callers : d # c => session'[d] = session[d]
    BY <1>1, <1>2, <1>5 DEF Replies
  <1>7. Busy(c)' /\ ~Busy(c)
    BY <1>2, <1>3, <1>4, <1>6 DEF Busy
  <1>8. HistoryIsCurrent(c)'
    <2>1. ever'[c] = ever[c] \cup ArguablyTrueOf(c)' /\ always'[c] = SurelyTrueOf(c)'
      BY <1>7 DEF Observe
    <2> QED  BY <2>1 DEF HistoryIsCurrent
  <1>9. StageFitsScheme(c)' /\ SearchIsSound(c)' /\ PrincipalIsOwner(c)' /\ FoundIsGood(c)' /\ AskingIsSound(c)'
    BY <1>3, <1>4, <1>6 DEF StageFitsScheme, SearchIsSound, PrincipalIsOwner, FoundIsGood, AskingIsSound
  <1>10. issued' = issued
    BY DEF database, keyVars
  <1>11. s \in 1..issued'
    BY <1>1, <1>2, <1>10, Generated
  <1>12. SessionOK(c)'
    BY <1>3, <1>4, <1>6, <1>11 DEF SessionOK, Instant, Lookups
  <1> QED  BY <1>6, <1>7, <1>8, <1>9, <1>12 DEF CallerStep, CallerInv

\* What checkPermission asks for is a list of permissions.
LEMMA WhatIsAsked ==
    ASSUME NEW required \in Permissions
    PROVE  /\ AsksFor(required) \in Seq(Permissions) /\ AsksFor(required) # <<>>
           /\ \A k \in 1..Len(AsksFor(required)) : k \in DOMAIN AsksFor(required)
           /\ \A k \in DOMAIN AsksFor(required) : k \in 1..Len(AsksFor(required))
  <1>1. CASE required = "read"
    <2>1. AsksFor(required) = <<"read", "manage", "write">>
      BY <1>1 DEF AsksFor
    <2> QED  BY <2>1 DEF Permissions
  <1>2. CASE required = "write"
    <2>1. AsksFor(required) = <<"write", "manage">>
      BY <1>2 DEF AsksFor
    <2> QED  BY <2>1 DEF Permissions
  <1>3. CASE required = "manage"
    <2>1. AsksFor(required) = <<"manage">>
      BY <1>3 DEF AsksFor
    <2> QED  BY <2>1 DEF Permissions
  <1> QED  BY <1>1, <1>2, <1>3 DEF Permissions

\* The caller is known, and Authz comes next.
LEMMA AuthenticateStep ==
    ASSUME IndInv, NEW c \in Callers, Busy(c), UNCHANGED database, Observe,
           NEW w \in Principal, Authenticate(c, w),
           FirstLookup(session[c].call.scheme) \in {"token", "current"},
           ever[c] \cap Accepts(session[c].call.scheme) # {},
           w.id = owner[session[c].secret], w.type = "oauth2" <=> w.id = OAuthClient
    PROVE  CallerStep(c)
  <1> DEFINE call == session[c].call
             x == [session[c] EXCEPT !.at = "authz", !.who = w, !.asking = Checks(call)]
  <1>1. /\ DatabaseOK /\ session \in [Callers -> Session] /\ session[c] \in Session /\ call \in Calls
        /\ session[c].secret \in 1..issued /\ session[c].expires \in Instant /\ session[c].unlucky \in BOOLEAN
        /\ HistoryIsCurrent(c)
    BY Underway DEF CallerInv
  <1>2. call.required \in Permissions /\ call \in Call
    BY <1>1, Constants DEF Call
  <1>3. /\ AsksFor(call.required) \in Seq(Permissions) /\ AsksFor(call.required) # <<>>
        /\ \A k \in 1..Len(AsksFor(call.required)) : k \in DOMAIN AsksFor(call.required)
        /\ \A k \in DOMAIN AsksFor(call.required) : k \in 1..Len(AsksFor(call.required))
    BY <1>2, WhatIsAsked
  <1>4. Checks(call) \in Seq(Permissions)
    BY <1>3 DEF Checks
  <1>5. session' = [session EXCEPT ![c] = x] /\ UNCHANGED answer
    BY <1>1 DEF Authenticate
  <1>6. /\ x \in Session /\ x.at = "authz" /\ x.who = w /\ x.asking = Checks(call) /\ x.call = call
        /\ x.secret = session[c].secret /\ x.expires = session[c].expires /\ x.unlucky = session[c].unlucky
    BY <1>1, <1>4 DEF Session
  <1> HIDE DEF x
  <1>7. /\ session' \in [Callers -> Session] /\ answer' \in [Callers -> Replies]
        /\ \A d \in Callers : d # c => session'[d] = session[d]
        /\ session'[c] = x /\ Busy(c)' /\ UNCHANGED <<now, issued, keys, owner, promise, deleted>>
        /\ ever'[c] = ever[c] /\ always'[c] = always[c] /\ HistoryIsCurrent(c)'
    BY <1>5, <1>6, MoveStep
  <1>8. StageFitsScheme(c)' /\ SearchIsSound(c)' /\ PrincipalIsOwner(c)' /\ FoundIsGood(c)'
    BY <1>6, <1>7 DEF StageFitsScheme, SearchIsSound, PrincipalIsOwner, FoundIsGood
  <1>9. /\ Checks(call) = <<>> => ~ACLEnabled \/ NamespaceOf[call] = None
        /\ Checks(call) # <<>> => ACLEnabled /\ NamespaceOf[call] # None /\ Checks(call) = AsksFor(call.required)
    BY <1>3 DEF Checks
  <1>10. \A q : IsAsked(Checks(call), q) => Includes(q, call.required)
    BY <1>3, <1>9 DEF IsAsked, Includes, Checks
  <1>11. Checks(call) # <<>> => \A q \in always[c] \cap Permissions : IsAsked(Checks(call), q)
    <2>1. \A q \in always[c] \cap Permissions : Includes(q, call.required)
      BY <1>1, WhatIsTrueNow DEF HistoryIsCurrent
    <2> QED  BY <1>3, <1>9, <2>1 DEF IsAsked, Includes
  <1>12. AskingIsSound(c)'
    BY <1>6, <1>7, <1>9, <1>10, <1>11 DEF AskingIsSound
  <1>13. SessionOK(c)'
    BY <1>1, <1>6, <1>7 DEF SessionOK
  <1> QED  BY <1>7, <1>8, <1>12, <1>13 DEF CallerStep, CallerInv

\* A key is found.
LEMMA FoundStep ==
    ASSUME IndInv, NEW c \in Callers, Busy(c), UNCHANGED database, Observe,
           session[c].at \in {"current", "previous"}, NEW t \in Clock,
           NEW i \in CurrentRows(c) \cup PreviousRows(c, t),
           NEW type \in {"api_key", "api_key_rotated"}, FoundKey(c, i, type)
    PROVE  CallerStep(c)
  <1> DEFINE call == session[c].call
             w == [id |-> i, type |-> type]
             x == [session[c] EXCEPT !.at = "expiry", !.who = w, !.expires = keys[i].expires]
  <1>1. /\ DatabaseOK /\ KeyInv /\ session \in [Callers -> Session] /\ session[c] \in Session
        /\ call \in Calls /\ session[c].secret \in 1..issued /\ session[c].unlucky \in BOOLEAN
        /\ HistoryIsCurrent(c) /\ FirstLookup(call.scheme) = "current"
    BY Underway DEF CallerInv, StageFitsScheme
  <1>2. /\ i \in Secrets /\ owner[session[c].secret] = i /\ i # OAuthClient
        /\ keys[i] \in Key /\ keys[i].expires = promise[i]
        /\ Past(keys[i].expires, now) \/ "key" \in GoodFor(session[c].secret, now)
    BY <1>1, KeyFound
  <1>3. Past(keys[i].expires, now) \/ "key" \in ever[c]
    BY <1>1, <1>2, WhatIsTrueNow, WhatIsAccepted DEF HistoryIsCurrent
  <1>4. w \in Principal /\ keys[i].expires \in Instant
    BY <1>2 DEF Principal, Key
  <1>5. session' = [session EXCEPT ![c] = x] /\ UNCHANGED answer
    BY <1>1 DEF FoundKey
  <1>6. /\ x \in Session /\ x.at = "expiry" /\ x.who = w /\ x.expires = keys[i].expires /\ x.call = call
        /\ x.secret = session[c].secret /\ x.unlucky = session[c].unlucky
    BY <1>1, <1>4 DEF Session
  <1> HIDE DEF x
  <1>7. /\ session' \in [Callers -> Session] /\ answer' \in [Callers -> Replies]
        /\ \A d \in Callers : d # c => session'[d] = session[d]
        /\ session'[c] = x /\ Busy(c)' /\ UNCHANGED <<now, issued, keys, owner, promise, deleted>>
        /\ ever'[c] = ever[c] /\ always'[c] = always[c] /\ HistoryIsCurrent(c)'
    BY <1>5, <1>6, MoveStep
  <1>8. StageFitsScheme(c)' /\ SearchIsSound(c)' /\ PrincipalIsOwner(c)' /\ AskingIsSound(c)'
    BY <1>1, <1>2, <1>6, <1>7 DEF StageFitsScheme, SearchIsSound, PrincipalIsOwner, AskingIsSound
  <1>9. FoundIsGood(c)'
    BY <1>2, <1>3, <1>6, <1>7 DEF FoundIsGood, Past
  <1>10. SessionOK(c)'
    BY <1>1, <1>4, <1>6, <1>7 DEF SessionOK
  <1> QED  BY <1>7, <1>8, <1>9, <1>10 DEF CallerStep, CallerInv

\* Nothing is found, and the next statement is tried.
LEMMA ElsewhereStep ==
    ASSUME IndInv, NEW c \in Callers, Busy(c), UNCHANGED database, Observe,
           NEW at, NEW fails \in BOOLEAN, LookElsewhere(c, at, fails),
           \/ session[c].at = "current" /\ at = "previous" /\ (~fails => NotCurrent(c))
           \/ session[c].at = "streamKey" /\ at = "streamToken" /\ (~fails => "current" \notin always[c])
    PROVE  CallerStep(c)
  <1> DEFINE call == session[c].call
             bad == session[c].unlucky \/ fails
             x == [session[c] EXCEPT !.at = at, !.unlucky = bad]
  <1>1. /\ session \in [Callers -> Session] /\ session[c] \in Session
        /\ call \in Calls /\ session[c].secret \in 1..issued /\ session[c].expires \in Instant
        /\ session[c].unlucky \in BOOLEAN /\ StageFitsScheme(c) /\ session[c].who = None
    BY Underway DEF CallerInv
  <1>2. bad \in BOOLEAN /\ (~bad => ~fails)
    OBVIOUS
  <1>3. session' = [session EXCEPT ![c] = x] /\ UNCHANGED answer
    BY <1>1 DEF LookElsewhere
  <1> HIDE DEF bad
  <1>4. /\ x \in Session /\ x.at = at /\ x.who = None /\ x.expires = session[c].expires /\ x.call = call
        /\ x.secret = session[c].secret /\ x.unlucky = bad
    BY <1>1, <1>2 DEF Session, Lookups
  <1> HIDE DEF x
  <1>5. /\ session' \in [Callers -> Session] /\ answer' \in [Callers -> Replies]
        /\ \A d \in Callers : d # c => session'[d] = session[d]
        /\ session'[c] = x /\ Busy(c)' /\ UNCHANGED <<now, issued, keys, owner, promise, deleted>>
        /\ ever'[c] = ever[c] /\ always'[c] = always[c] /\ HistoryIsCurrent(c)'
    BY <1>3, <1>4, MoveStep
  <1>6. StageFitsScheme(c)' /\ PrincipalIsOwner(c)' /\ FoundIsGood(c)' /\ AskingIsSound(c)'
    BY <1>1, <1>4, <1>5 DEF StageFitsScheme, PrincipalIsOwner, FoundIsGood, AskingIsSound
  <1>7. SearchIsSound(c)'
    <2>1. NotCurrent(c) => NotCurrent(c)'
      BY <1>4, <1>5 DEF NotCurrent
    <2> QED  BY <1>2, <1>4, <1>5, <2>1 DEF SearchIsSound
  <1>8. SessionOK(c)'
    BY <1>1, <1>2, <1>4, <1>5 DEF SessionOK, Lookups
  <1> QED  BY <1>5, <1>6, <1>7, <1>8 DEF CallerStep, CallerInv

\* Nobody can be let in by this scheme.
LEMMA RefuseStep ==
    ASSUME IndInv, NEW c \in Callers, UNCHANGED database, Observe, Refuse(c)
    PROVE  CallerStep(c)
  <1>1. session[c].at = "refuse" /\ Reply(c, "unauthorized", FALSE) /\ Busy(c)
    BY DEF Refuse, Busy
  <1>2. StageFitsScheme(c)
    BY <1>1, Underway DEF CallerInv
  <1>3. MayRefuse(c)
    BY <1>1, <1>2, WhatIsAccepted DEF StageFitsScheme, MayRefuse
  <1> QED  BY <1>1, <1>3, AnswerStep

\* A statement returns what matches, unless it fails.
LEMMA Results ==
    ASSUME NEW rows, NEW q \in Result(rows)
    PROVE  q.fails \in BOOLEAN /\ (q.rows # {} => q.rows = rows) /\ (~q.fails => q.rows = rows)
  <1>1. CASE q = [rows |-> rows, fails |-> FALSE]
    BY <1>1
  <1>2. CASE q = [rows |-> {}, fails |-> TRUE]
    BY <1>2
  <1> QED  BY <1>1, <1>2 DEF Result

\* validateBearerToken finds the token if it is good by every clock, and only if it is
\* good by some clock.
LEMMA TokenLookupStep ==
    ASSUME IndInv, NEW c \in Callers, UNCHANGED database, Observe, NEW t \in Clock, LookupToken(c, t)
    PROVE  CallerStep(c)
  <1>1. session[c].at = "token" /\ Busy(c)
    BY DEF LookupToken, Busy
  <1>2. /\ DatabaseOK /\ KeyInv /\ session[c].secret \in 1..issued /\ HistoryIsCurrent(c)
        /\ FirstLookup(session[c].call.scheme) = "token"
    BY <1>1, Underway DEF CallerInv, StageFitsScheme
  <1>3. Accepts(session[c].call.scheme) = {"token"}
    BY <1>2, WhatIsAccepted
  <1>4. /\ TokenRows(c, t) # {} => "token" \in ArguablyTrueOf(c) /\ "token" \in GoodFor(session[c].secret, now)
        /\ "token" \in SurelyTrueOf(c) => TokenRows(c, t) # {}
    BY <1>2, <1>3, TokenFound, WhatIsTrueNow
  <1>5. PICK q \in Result(TokenRows(c, t)) :
          \/ q.rows # {} /\ Authenticate(c, [id |-> OAuthClient, type |-> "oauth2"])
          \/ q.rows = {} /\ Reply(c, "unauthorized", q.fails)
    BY DEF LookupToken
  <1>6. q.fails \in BOOLEAN /\ (q.rows # {} => q.rows = TokenRows(c, t)) /\ (~q.fails => q.rows = TokenRows(c, t))
    BY Results
  <1>7. CASE q.rows # {} /\ Authenticate(c, [id |-> OAuthClient, type |-> "oauth2"])
    <2> DEFINE w == [id |-> OAuthClient, type |-> "oauth2"]
    <2>1. "token" \in ever[c] /\ "token" \in GoodFor(session[c].secret, now)
      BY <1>2, <1>3, <1>4, <1>6, <1>7 DEF HistoryIsCurrent
    <2>2. owner[session[c].secret] = OAuthClient
      BY <2>1, WhatIsGood
    <2>3. w \in Principal /\ w.id = OAuthClient /\ w.type = "oauth2"
      BY DEF Principal
    <2> HIDE DEF w
    <2>4. Authenticate(c, w)
      BY <1>7 DEF w
    <2> QED  BY <1>1, <1>2, <1>3, <2>1, <2>2, <2>3, <2>4, AuthenticateStep
  <1>8. CASE q.rows = {} /\ Reply(c, "unauthorized", q.fails)
    <2>1. ~q.fails => MayRefuse(c)
      BY <1>2, <1>3, <1>4, <1>6, <1>8 DEF HistoryIsCurrent, MayRefuse
    <2> QED  BY <1>1, <1>6, <1>8, <2>1, AnswerStep
  <1> QED  BY <1>5, <1>7, <1>8

\* validateAPIKey finds a current key, or the secret is none.
LEMMA CurrentLookupStep ==
    ASSUME IndInv, NEW c \in Callers, UNCHANGED database, Observe, LookupCurrent(c)
    PROVE  CallerStep(c)
  <1>1. session[c].at = "current" /\ Busy(c)
    BY DEF LookupCurrent, Busy
  <1>2. DatabaseOK /\ KeyInv /\ session[c].secret \in 1..issued /\ now \in Clock
    BY <1>1, Underway, Clocks
  <1>3. PICK q \in Result(CurrentRows(c)) :
          \/ \E i \in q.rows : FoundKey(c, i, "api_key")
          \/ q.rows = {} /\ LookElsewhere(c, "previous", q.fails)
    BY DEF LookupCurrent
  <1>4. q.fails \in BOOLEAN /\ (q.rows # {} => q.rows = CurrentRows(c)) /\ (~q.fails => q.rows = CurrentRows(c))
    BY Results
  <1>5. CASE \E i \in q.rows : FoundKey(c, i, "api_key")
    <2>1. PICK i \in CurrentRows(c) : FoundKey(c, i, "api_key")
      BY <1>4, <1>5
    <2>2. i \in CurrentRows(c) \cup PreviousRows(c, now)
      OBVIOUS
    <2> QED  BY <1>1, <1>2, <2>1, <2>2, FoundStep
  <1>6. CASE q.rows = {} /\ LookElsewhere(c, "previous", q.fails)
    <2>1. ASSUME ~q.fails PROVE NotCurrent(c)
      <3>1. CurrentRows(c) = {}
        BY <1>4, <1>6, <2>1
      <3>2. owner[session[c].secret] # OAuthClient => owner[session[c].secret] \in Secrets
        BY <1>2, KeyOfSecret
      <3> QED  BY <3>1, <3>2 DEF NotCurrent, CurrentRows
    <2> QED  BY <1>1, <1>4, <1>6, <2>1, ElsewhereStep
  <1> QED  BY <1>3, <1>5, <1>6

\* validateAPIKey finds a rotated key, or the secret is good for none: a rotation
\* between the two statements hides no key from both.
LEMMA PreviousLookupStep ==
    ASSUME IndInv, NEW c \in Callers, UNCHANGED database, Observe, NEW t \in Clock, LookupPrevious(c, t)
    PROVE  CallerStep(c)
  <1>1. session[c].at = "previous" /\ Busy(c)
    BY DEF LookupPrevious, Busy
  <1>2. /\ DatabaseOK /\ KeyInv /\ session[c].secret \in 1..issued /\ HistoryIsCurrent(c) /\ SearchIsSound(c)
        /\ FirstLookup(session[c].call.scheme) = "current"
    BY <1>1, Underway DEF CallerInv, StageFitsScheme
  <1>3. Accepts(session[c].call.scheme) = {"key"}
    BY <1>2, WhatIsAccepted
  <1>4. PICK q \in Result(PreviousRows(c, t)) :
          \/ \E i \in q.rows : FoundKey(c, i, "api_key_rotated")
          \/ q.rows = {} /\ Reply(c, "unauthorized", q.fails)
    BY DEF LookupPrevious
  <1>5. q.fails \in BOOLEAN /\ (q.rows # {} => q.rows = PreviousRows(c, t)) /\ (~q.fails => q.rows = PreviousRows(c, t))
    BY Results
  <1>6. CASE \E i \in q.rows : FoundKey(c, i, "api_key_rotated")
    <2>1. PICK i \in PreviousRows(c, t) : FoundKey(c, i, "api_key_rotated")
      BY <1>5, <1>6
    <2> QED  BY <1>1, <2>1, FoundStep
  <1>7. CASE q.rows = {} /\ Reply(c, "unauthorized", q.fails)
    <2>1. ASSUME ~session[c].unlucky, ~q.fails PROVE MayRefuse(c)
      <3>1. NotCurrent(c) /\ PreviousRows(c, t) = {}
        BY <1>1, <1>2, <1>5, <1>7, <2>1 DEF SearchIsSound
      <3>2. "key" \notin SurelyTrueOf(c)
        BY <1>2, <1>3, <3>1, NoKeyFound, WhatIsTrueNow
      <3> QED  BY <1>2, <1>3, <3>2 DEF HistoryIsCurrent, MayRefuse
    <2> QED  BY <1>1, <1>5, <1>7, <2>1, AnswerStep
  <1> QED  BY <1>4, <1>6, <1>7

\* The expiry that validateAPIKey compares with the clock is the one promised.
LEMMA ExpiryStep ==
    ASSUME IndInv, NEW c \in Callers, UNCHANGED database, Observe, NEW t \in Clock, CheckExpiry(c, t)
    PROVE  CallerStep(c)
  <1>1. session[c].at = "expiry" /\ Busy(c)
    BY DEF CheckExpiry, Busy
  <1>2. /\ HistoryIsCurrent(c) /\ FoundIsGood(c) /\ PrincipalIsOwner(c) /\ session[c].who \in Principal
        /\ FirstLookup(session[c].call.scheme) = "current" /\ session[c].expires \in Int \cup {None}
        /\ DatabaseOK
    BY <1>1, Underway DEF Instant, CallerInv, StageFitsScheme, Lookups
  <1>3. Accepts(session[c].call.scheme) = {"key"}
    BY <1>2, WhatIsAccepted
  <1>6. /\ now \in Nat /\ Latest \in Nat /\ t \in Nat /\ now <= t /\ t <= Latest /\ None \notin Int
    BY <1>2, Clocks, Constants
  <1>4. CASE Past(session[c].expires, t) /\ Reply(c, "unauthorized", FALSE)
    <2>1. "key" \notin SurelyTrueOf(c)
      <3>1. Past(promise[owner[session[c].secret]], Latest)
        BY <1>1, <1>2, <1>4, <1>6 DEF FoundIsGood, Past
      <3> QED  BY <1>3, <3>1, WhatIsGood, WhatIsTrueNow DEF Live
    <2>2. MayRefuse(c)
      BY <1>2, <1>3, <2>1 DEF HistoryIsCurrent, MayRefuse
    <2> QED  BY <1>1, <1>4, <2>2, AnswerStep
  <1>5. CASE ~Past(session[c].expires, t) /\ Authenticate(c, session[c].who)
    <2>1. ever[c] \cap Accepts(session[c].call.scheme) # {}
      <3>1. ~Past(session[c].expires, now)
        BY <1>2, <1>5, <1>6 DEF Past
      <3> QED  BY <1>1, <1>2, <1>3, <3>1 DEF FoundIsGood
    <2>2. /\ session[c].who.id = owner[session[c].secret]
          /\ session[c].who.type = "oauth2" <=> session[c].who.id = OAuthClient
      BY <1>1, <1>2 DEF PrincipalIsOwner
    <2> QED  BY <1>1, <1>2, <1>5, <2>1, <2>2, AuthenticateStep
  <1> QED  BY <1>4, <1>5 DEF CheckExpiry

\* A request that Authz has nothing to check of passes.
LEMMA PassStep ==
    ASSUME IndInv, NEW c \in Callers, UNCHANGED database, Observe, PassThrough(c)
    PROVE  CallerStep(c)
  <1>1. session[c].at = "authz" /\ session[c].asking = <<>> /\ Reply(c, "ok", FALSE) /\ Busy(c)
    BY DEF PassThrough, Busy
  <1>2. FoundIsGood(c) /\ PrincipalIsOwner(c) /\ AskingIsSound(c)
    BY <1>1, Underway DEF CallerInv
  <1>3. MayPass(c)
    BY <1>1, <1>2 DEF FoundIsGood, PrincipalIsOwner, AskingIsSound, MayPass, Unchecked
  <1> QED  BY <1>1, <1>3, AnswerStep

\* A principal holds what its secret's owner holds, and a rotated key nothing.
LEMMA PrincipalHolds ==
    ASSUME IndInv, NEW c \in Callers, session[c].at = "authz", NEW path, NEW q
    PROVE  /\ Holds(session[c].who, path, q) => Holds(Declared(session[c].secret), path, q)
           /\ session[c].who.type # "api_key_rotated" /\ Holds(Declared(session[c].secret), path, q) =>
                Holds(session[c].who, path, q)
  <1> DEFINE w == session[c].who
             o == owner[session[c].secret]
             e == Declared(session[c].secret)
  <1>1. Busy(c)
    BY DEF Busy
  <1>2. w \in Principal /\ PrincipalIsOwner(c) /\ granted \in GrantSets
    BY <1>1, Underway DEF CallerInv, Lookups, DatabaseOK
  <1>3. w.id = o /\ (w.type = "oauth2" <=> o = OAuthClient) /\ w.type \in {"api_key", "api_key_rotated", "oauth2"}
    BY <1>2 DEF PrincipalIsOwner, Principal
  <1>4. e.id = o /\ e.type = IF o = OAuthClient THEN "oauth2" ELSE "api_key"
    BY DEF Declared
  <1>5. \A g \in granted : g.type \in {"api_key", "oauth2"}
    BY <1>2, AccessAssumption DEF Grant
  <1>6. \A g \in granted : g.type = w.type => g.type = e.type
    BY <1>3, <1>4, <1>5
  <1>7. w.type # "api_key_rotated" => w.type = e.type
    BY <1>3, <1>4
  <1> HIDE DEF w, o, e
  <1>8. /\ Holds(w, path, q) => Holds(e, path, q)
        /\ w.type # "api_key_rotated" /\ Holds(e, path, q) => Holds(w, path, q)
    BY <1>3, <1>4, <1>6, <1>7 DEF Holds
  <1> QED  BY <1>8 DEF w, e

\* One of several permissions is asked for.
LEMMA AskStep ==
    ASSUME IndInv, NEW c \in Callers, UNCHANGED database, Observe, CheckPermission(c)
    PROVE  CallerStep(c)
  <1> DEFINE call == session[c].call
             asking == session[c].asking
             holds == Holds(session[c].who, NamespaceOf[call], Head(asking))
  <1>1. session[c].at = "authz" /\ asking # <<>> /\ Busy(c)
    BY DEF CheckPermission, Busy
  <1>2. /\ HistoryIsCurrent(c) /\ StageFitsScheme(c) /\ FoundIsGood(c) /\ PrincipalIsOwner(c) /\ AskingIsSound(c)
        /\ session[c] \in Session /\ session \in [Callers -> Session] /\ call \in Calls
        /\ session[c].secret \in 1..issued /\ session[c].expires \in Instant
        /\ session[c].unlucky \in BOOLEAN /\ session[c].who \in Principal
    BY <1>1, Underway DEF CallerInv, Lookups
  <1>3. asking \in Seq(Permissions)
    BY <1>2 DEF Session
  <1>4. /\ Len(asking) \in Nat /\ Len(asking) >= 1 /\ Head(asking) = asking[1] /\ Head(asking) \in Permissions
        /\ Tail(asking) \in Seq(Permissions) /\ Len(Tail(asking)) = Len(asking) - 1
        /\ \A k \in 1..Len(Tail(asking)) : Tail(asking)[k] = asking[k + 1]
    BY <1>1, <1>3
  <1>5. /\ ACLEnabled /\ NamespaceOf[call] # None
        /\ \A q : IsAsked(asking, q) => Includes(q, call.required)
        /\ session[c].who.type # "api_key_rotated" => \A q \in always[c] \cap Permissions : IsAsked(asking, q)
    BY <1>1, <1>2 DEF AskingIsSound
  <1>6. IsAsked(asking, Head(asking))
    BY <1>4 DEF IsAsked
  <1>7. ~holds /\ session[c].who.type # "api_key_rotated" => Head(asking) \notin always[c]
    <2>1. Head(asking) \in SurelyTrueOf(c) => Holds(Declared(session[c].secret), NamespaceOf[call], Head(asking))
      BY <1>4, WhatIsTrueNow
    <2> QED  BY <1>1, <1>2, <2>1, PrincipalHolds DEF HistoryIsCurrent
  <1>8. CASE holds /\ Reply(c, "ok", FALSE)
    <2>1. Holds(Declared(session[c].secret), NamespaceOf[call], Head(asking))
      BY <1>1, <1>8, PrincipalHolds
    <2>2. Head(asking) \in ever[c] \cap Permissions
      BY <1>2, <1>4, <1>5, <1>6, <2>1, WhatIsTrueNow DEF HistoryIsCurrent
    <2>3. MayPass(c)
      BY <1>1, <1>2, <2>2 DEF FoundIsGood, PrincipalIsOwner, MayPass
    <2> QED  BY <1>1, <1>8, <2>3, AnswerStep
  <1>9. CASE /\ ~holds /\ Len(asking) = 1
             /\ Reply(c, IF Includes(DefaultPermission, call.required) THEN "ok" ELSE "forbidden", FALSE)
    <2>1. CASE Includes(DefaultPermission, call.required)
      <3>1. MayPass(c)
        BY <1>1, <1>2, <2>1 DEF FoundIsGood, PrincipalIsOwner, MayPass, Unchecked
      <3> QED  BY <1>1, <1>9, <2>1, <3>1, AnswerStep
    <2>2. CASE ~Includes(DefaultPermission, call.required)
      <3>1. \A q : IsAsked(asking, q) => q = Head(asking)
        BY <1>4, <1>9 DEF IsAsked
      <3>2. MayForbid(c)
        BY <1>5, <1>7, <1>9, <2>2, <3>1 DEF MayForbid, Unchecked
      <3> QED  BY <1>1, <1>9, <2>2, <3>2, AnswerStep
    <2> QED  BY <2>1, <2>2
  <1>10. CASE /\ ~holds /\ Len(asking) # 1
              /\ session' = [session EXCEPT ![c].asking = Tail(@)] /\ UNCHANGED answer
    <2> DEFINE x == [session[c] EXCEPT !.asking = Tail(asking)]
    <2>1. session' = [session EXCEPT ![c] = x] /\ UNCHANGED answer
      BY <1>2, <1>10
    <2>2. /\ x \in Session /\ x.at = "authz" /\ x.who = session[c].who /\ x.expires = session[c].expires
          /\ x.call = call /\ x.secret = session[c].secret /\ x.unlucky = session[c].unlucky
          /\ x.asking = Tail(asking)
      BY <1>1, <1>2, <1>4 DEF Session
    <2> HIDE DEF x
    <2>3. /\ session' \in [Callers -> Session] /\ answer' \in [Callers -> Replies]
          /\ \A d \in Callers : d # c => session'[d] = session[d]
          /\ session'[c] = x /\ Busy(c)' /\ UNCHANGED <<now, issued, keys, owner, promise, deleted>>
          /\ ever'[c] = ever[c] /\ always'[c] = always[c] /\ HistoryIsCurrent(c)'
      BY <1>1, <2>1, <2>2, MoveStep
    <2>4. StageFitsScheme(c)' /\ SearchIsSound(c)' /\ PrincipalIsOwner(c)' /\ FoundIsGood(c)'
      BY <1>1, <1>2, <2>2, <2>3 DEF StageFitsScheme, SearchIsSound, PrincipalIsOwner, FoundIsGood
    <2>5. \A q : IsAsked(Tail(asking), q) => IsAsked(asking, q)
      <3>1. \A k \in 1..Len(Tail(asking)) : k + 1 \in 1..Len(asking)
        BY <1>4
      <3> QED  BY <1>4, <3>1 DEF IsAsked
    <2>6. \A q : IsAsked(asking, q) => q = Head(asking) \/ IsAsked(Tail(asking), q)
      <3>1. \A k \in 1..Len(asking) : k = 1 \/ (k - 1 \in 1..Len(Tail(asking)) /\ Tail(asking)[k - 1] = asking[k])
        BY <1>4
      <3> QED  BY <1>4, <3>1 DEF IsAsked
    <2>7. Tail(asking) # <<>>
      <3>1. Len(Tail(asking)) # 0 /\ Len(<<>>) = 0
        BY <1>4, <1>10
      <3> QED  BY <3>1
    <2>8. AskingIsSound(c)'
      BY <1>5, <1>7, <1>10, <2>2, <2>3, <2>5, <2>6, <2>7 DEF AskingIsSound
    <2>9. SessionOK(c)'
      BY <1>1, <1>2, <2>2, <2>3 DEF SessionOK
    <2> QED  BY <2>3, <2>4, <2>8, <2>9 DEF CallerStep, CallerInv
  <1>11. CASE Reply(c, "forbidden", TRUE)
    BY <1>1, <1>11, AnswerStep
  <1> QED  BY <1>8, <1>9, <1>10, <1>11 DEF CheckPermission

\* authenticateWebSocket finds the key if it is current and good by every
\* clock, and only if it is so by some clock.
LEMMA StreamKeyStep ==
    ASSUME IndInv, NEW c \in Callers, UNCHANGED database, Observe, NEW t \in Clock, StreamKey(c, t)
    PROVE  CallerStep(c)
  <1> DEFINE Rows == {i \in CurrentRows(c) : keys[i].expires = None \/ keys[i].expires > t}
  <1>1. session[c].at = "streamKey" /\ Busy(c)
    BY DEF StreamKey, Busy
  <1>2. /\ DatabaseOK /\ KeyInv /\ session[c].secret \in 1..issued /\ HistoryIsCurrent(c)
        /\ FirstLookup(session[c].call.scheme) = "streamKey"
    BY <1>1, Underway DEF CallerInv, StageFitsScheme
  <1>3. Accepts(session[c].call.scheme) = {"current", "token"} /\ session[c].call.scheme = "stream"
    BY <1>2, WhatIsAccepted
  <1>4. /\ Rows # {} => "current" \in ArguablyTrueOf(c)
        /\ "current" \in SurelyTrueOf(c) => Rows # {}
    BY <1>2, <1>3, StreamKeyFound, WhatIsTrueNow
  <1>5. PICK q \in Result(Rows) :
          \/ q.rows # {} /\ Reply(c, "ok", FALSE)
          \/ q.rows = {} /\ LookElsewhere(c, "streamToken", q.fails)
    BY DEF StreamKey
  <1>6. q.fails \in BOOLEAN /\ (q.rows # {} => q.rows = Rows) /\ (~q.fails => q.rows = Rows)
    BY Results
  <1> HIDE DEF Rows
  <1>7. CASE q.rows # {} /\ Reply(c, "ok", FALSE)
    <2>1. MayPass(c)
      BY <1>2, <1>3, <1>4, <1>6, <1>7 DEF HistoryIsCurrent, MayPass
    <2> QED  BY <1>1, <1>7, <2>1, AnswerStep
  <1>8. CASE q.rows = {} /\ LookElsewhere(c, "streamToken", q.fails)
    <2>1. ~q.fails => "current" \notin always[c]
      BY <1>2, <1>4, <1>6, <1>8 DEF HistoryIsCurrent
    <2> QED  BY <1>1, <1>6, <1>8, <2>1, ElsewhereStep
  <1> QED  BY <1>5, <1>7, <1>8

\* authenticateWebSocket looks for a token once no key was found.
LEMMA StreamTokenStep ==
    ASSUME IndInv, NEW c \in Callers, UNCHANGED database, Observe, NEW t \in Clock, StreamToken(c, t)
    PROVE  CallerStep(c)
  <1>1. session[c].at = "streamToken" /\ Busy(c)
    BY DEF StreamToken, Busy
  <1>2. /\ DatabaseOK /\ KeyInv /\ session[c].secret \in 1..issued /\ HistoryIsCurrent(c) /\ SearchIsSound(c)
        /\ FirstLookup(session[c].call.scheme) = "streamKey"
    BY <1>1, Underway DEF CallerInv, StageFitsScheme
  <1>3. Accepts(session[c].call.scheme) = {"current", "token"} /\ session[c].call.scheme = "stream"
    BY <1>2, WhatIsAccepted
  <1>4. /\ TokenRows(c, t) # {} => "token" \in ArguablyTrueOf(c) /\ "token" \in GoodFor(session[c].secret, now)
        /\ "token" \in SurelyTrueOf(c) => TokenRows(c, t) # {}
    BY <1>2, <1>3, TokenFound, WhatIsTrueNow
  <1>5. PICK q \in Result(TokenRows(c, t)) : Reply(c, IF q.rows # {} THEN "ok" ELSE "unauthorized", q.fails)
    BY DEF StreamToken
  <1>6. q.fails \in BOOLEAN /\ (q.rows # {} => q.rows = TokenRows(c, t)) /\ (~q.fails => q.rows = TokenRows(c, t))
    BY Results
  <1>7. CASE q.rows # {}
    <2>1. MayPass(c)
      BY <1>2, <1>3, <1>4, <1>6, <1>7 DEF HistoryIsCurrent, MayPass
    <2>2. Reply(c, "ok", q.fails)
      BY <1>5, <1>7
    <2> QED  BY <1>1, <1>6, <2>1, <2>2, AnswerStep
  <1>8. CASE q.rows = {}
    <2>1. ~session[c].unlucky /\ ~q.fails => MayRefuse(c)
      BY <1>1, <1>2, <1>3, <1>4, <1>6, <1>8 DEF HistoryIsCurrent, SearchIsSound, MayRefuse
    <2>2. Reply(c, "unauthorized", q.fails)
      BY <1>5, <1>8
    <2> QED  BY <1>1, <1>6, <2>1, <2>2, AnswerStep
  <1> QED  BY <1>7, <1>8

\* Every step of a caller is a good one.
LEMMA AnyCallerStep ==
    ASSUME IndInv, NEW c \in Callers, UNCHANGED database, Observe, Caller(c)
    PROVE  CallerStep(c)
  BY BeginStep, RefuseStep, TokenLookupStep, CurrentLookupStep, PreviousLookupStep, ExpiryStep,
     PassStep, AskStep, StreamKeyStep, StreamTokenStep DEF Caller

----------------------------------------------------------------------------
(***************************************************************************)
(* The steps of the system                                                 *)
(***************************************************************************)
\* A caller that waits while the database changes or another caller is served.
LEMMA WaitingStep ==
    ASSUME IndInv, NEW c \in Callers, GoodStep, Observe, session'[c] = session[c]
    PROVE  SessionOK(c)' /\ CallerInv(c)'
  <1>1. CASE ~Busy(c)
    <2>1. session[c] = Idle
      BY <1>1 DEF IndInv, TypeOK, Busy, Lookups
    <2> QED  BY <1>1, <2>1 DEF SessionOK, CallerInv, Busy
  <1>2. CASE Busy(c)
    <2> DEFINE s == session[c].secret
    <2>1. /\ DatabaseOK /\ KeyInv /\ CallerInv(c) /\ session[c].call \in Calls /\ s \in 1..issued
          /\ session[c].expires \in Instant /\ session[c].unlucky \in BOOLEAN
          /\ \/ session[c].at \in Lookups \cup {"refuse"} /\ session[c].who = None
             \/ session[c].at \in {"expiry", "authz"} /\ session[c].who \in Principal
      BY <1>2, Underway
    <2>2. /\ now \in Nat /\ now' \in Nat /\ now <= now' /\ issued \in Nat /\ issued' \in Nat /\ issued <= issued'
          /\ None \notin Int
      BY <2>1, Constants, Generated DEF GoodStep, DatabaseOK, Evolves
    <2>3. s \in 1..issued'
      BY <2>1, <2>2
    <2>4. SessionOK(c)'
      BY <2>1, <2>3 DEF SessionOK
    <2>5. owner'[s] = owner[s]
      BY <2>1 DEF GoodStep, Evolves
    <2>6. Busy(c)'
      BY <1>2 DEF Busy
    <2>7. ever'[c] = ever[c] \cup ArguablyTrueOf(c)' /\ always'[c] = always[c] \cap SurelyTrueOf(c)'
      BY <1>2, <2>6 DEF Observe
    <2>8. HistoryIsCurrent(c)' /\ ever[c] \subseteq ever'[c] /\ always'[c] \subseteq always[c]
      BY <2>7 DEF HistoryIsCurrent
    <2>9. StageFitsScheme(c)'
      BY <1>2, <2>1 DEF CallerInv, StageFitsScheme
    <2>10. NotCurrent(c) => NotCurrent(c)'
      <3> SUFFICES ASSUME NotCurrent(c), owner[s] # OAuthClient, keys'[owner[s]] # None
                   PROVE  keys'[owner[s]].hash # s
        BY <2>5 DEF NotCurrent
      <3>1. owner[s] \in 1..issued
        BY <2>1, KeyOfSecret
      <3>2. /\ keys[owner[s]] # None
            /\ keys'[owner[s]].hash = keys[owner[s]].hash \/ keys'[owner[s]].hash > issued
        BY <3>1 DEF GoodStep, Evolves
      <3>3. keys[owner[s]].hash # s
        BY <3>2 DEF NotCurrent
      <3> QED  BY <2>1, <2>2, <3>2, <3>3
    <2>11. SearchIsSound(c)'
      BY <1>2, <2>1, <2>8, <2>10 DEF CallerInv, SearchIsSound
    <2>12. PrincipalIsOwner(c)'
      BY <1>2, <2>1, <2>5 DEF CallerInv, PrincipalIsOwner
    <2>13. FoundIsGood(c)'
      <3>1. Past(session[c].expires, now) => Past(session[c].expires, now)'
        BY <2>1, <2>2 DEF Past, Instant
      <3>2. session[c].at = "expiry" => promise'[owner[s]] = promise[owner[s]]
        <4> SUFFICES ASSUME session[c].at = "expiry" PROVE promise'[owner[s]] = promise[owner[s]]
          OBVIOUS
        <4>1. owner[s] # OAuthClient
          BY <1>2, <2>1 DEF CallerInv, FoundIsGood, PrincipalIsOwner
        <4> QED  BY <2>1, <4>1, KeyOfSecret DEF GoodStep, Evolves
      <3> QED  BY <1>2, <2>1, <2>5, <2>8, <3>1, <3>2 DEF CallerInv, FoundIsGood
    <2>14. AskingIsSound(c)'
      BY <1>2, <2>1, <2>8 DEF CallerInv, AskingIsSound
    <2> QED  BY <2>4, <2>8, <2>9, <2>11, <2>12, <2>13, <2>14 DEF CallerInv
  <1> QED  BY <1>1, <1>2

\* A step that leaves the database alone keeps it sound.
LEMMA SameDatabase ==
    ASSUME DatabaseOK, KeyInv, UNCHANGED database
    PROVE  GoodStep
  <1>1. now \in Times /\ now \in Nat /\ now' = now /\ changes' = changes /\ granted' = granted
    BY Constants DEF DatabaseOK, database
  <1>2. now <= now'
    BY <1>1
  <1> QED  BY <1>1, <1>2, TimeStep DEF database, DatabaseOK

\* The parts of the invariant, put together again.
LEMMA InvariantParts ==
    IndInv <=> /\ DatabaseOK /\ KeyInv /\ session \in [Callers -> Session] /\ answer \in [Callers -> Replies]
               /\ \A c \in Callers : SessionOK(c) /\ CallerInv(c)
  BY TypeParts DEF IndInv, CallersOK, SessionOK, Replies

\* Every step keeps the invariant, and every answer is a right one.
LEMMA NextStep ==
    ASSUME IndInv, Next
    PROVE  IndInv' /\ \A c \in Callers : ~Busy(c)' /\ Busy(c) => GoodAnswer(c)
  <1>0. DatabaseOK /\ KeyInv /\ session \in [Callers -> Session] /\ answer \in [Callers -> Replies] /\ Observe
    BY InvariantParts DEF Next
  <1>1. CASE Manage /\ UNCHANGED callerVars
    <2>1. GoodStep /\ session' = session /\ answer' = answer
      BY <1>0, <1>1, ManageStep DEF callerVars
    <2>2. \A c \in Callers : SessionOK(c)' /\ CallerInv(c)'
      BY <1>0, <2>1, WaitingStep
    <2>3. \A c \in Callers : Busy(c)' <=> Busy(c)
      BY <2>1 DEF Busy
    <2>4. IndInv'
      <3>1. TypeOK'
        BY <1>0, <2>1, <2>2 DEF GoodStep, TypeOK, DatabaseOK, SessionOK, Replies
      <3> QED  BY <1>0, <2>1, <2>2, <3>1 DEF GoodStep, IndInv
    <2> QED  BY <2>3, <2>4
  <1>2. ASSUME NEW c \in Callers, Caller(c), UNCHANGED database
        PROVE  IndInv' /\ \A d \in Callers : ~Busy(d)' /\ Busy(d) => GoodAnswer(d)
    <2>1. CallerStep(c) /\ GoodStep
      BY <1>0, <1>2, AnyCallerStep, SameDatabase
    <2>2. /\ session' \in [Callers -> Session] /\ answer' \in [Callers -> Replies]
          /\ \A d \in Callers : d # c => session'[d] = session[d]
          /\ SessionOK(c)' /\ CallerInv(c)'
          /\ ~Busy(c)' /\ Busy(c) => GoodAnswer(c)
      BY <2>1 DEF CallerStep
    <2>3. \A d \in Callers : SessionOK(d)' /\ CallerInv(d)'
      BY <1>0, <2>1, <2>2, WaitingStep
    <2>4. \A d \in Callers : d # c => (Busy(d)' <=> Busy(d))
      BY <2>2 DEF Busy
    <2>5. IndInv'
      <3>1. TypeOK'
        BY <2>1, <2>2, <2>3 DEF GoodStep, TypeOK, DatabaseOK, SessionOK, Replies
      <3> QED  BY <2>1, <2>2, <2>3, <3>1 DEF GoodStep, IndInv
    <2> QED  BY <2>2, <2>4, <2>5
  <1> QED  BY <1>1, <1>2 DEF Next

\* The invariant holds before the first key is created.
LEMMA IndInit == Init => IndInv
  <1> SUFFICES ASSUME Init PROVE IndInv
    OBVIOUS
  <1>1. /\ now = 0 /\ issued = 0 /\ changes = 0
        /\ keys = [i \in Secrets |-> None] /\ tokens = [i \in Secrets |-> None]
        /\ granted = InitialGrants /\ rotation = [r \in Rotators |-> None]
        /\ session = [c \in Callers |-> Idle] /\ answer = [c \in Callers |-> None]
        /\ owner = [i \in Secrets |-> None] /\ promise = [i \in Secrets |-> None] /\ deleted = {}
    BY DEF Init
  <1>2. DatabaseOK
    BY <1>1, Constants DEF DatabaseOK, Instant
  <1>3. \A s \in Secrets : s > 0
    BY Constants DEF Secrets
  <1>4. OwnersExist
    BY <1>1, <1>3, Constants DEF OwnersExist
  <1>5. KeysAreSound /\ RotationsAreSound
    BY <1>1 DEF KeysAreSound, RotationsAreSound
  <1>6. KeysAreKept /\ TokensAreSound
    BY <1>1 DEF KeysAreKept, TokensAreSound
  <1>7. session \in [Callers -> Session] /\ answer \in [Callers -> Replies]
    BY <1>1, IdleIsSession DEF Replies
  <1>8. \A c \in Callers : SessionOK(c) /\ CallerInv(c)
    BY <1>1 DEF SessionOK, CallerInv, Busy, Idle
  <1> QED  BY <1>2, <1>4, <1>5, <1>6, <1>7, <1>8, InvariantParts DEF KeyInv

\* A step that changes nothing keeps the invariant.
LEMMA Stutter == ASSUME IndInv, UNCHANGED vars PROVE IndInv'
  <1>1. UNCHANGED <<now, keys, tokens, granted, issued, rotation, session, answer, owner, promise, deleted,
                    ever, always, changes>>
    BY DEF vars, database, keyVars, callerVars
  <1>2. GoodStep
    BY InvariantParts, SameDatabase DEF vars
  <1>3. ASSUME NEW c \in Callers PROVE CallerInv(c)'
    <2>1. ArguablyTrueOf(c)' = ArguablyTrueOf(c) /\ SurelyTrueOf(c)' = SurelyTrueOf(c)
      BY <1>1, SameTruth
    <2>2. CallerInv(c)
      BY DEF IndInv
    <2>3. Busy(c)' <=> Busy(c)
      BY <1>1 DEF Busy
    <2>4. HistoryIsCurrent(c) => HistoryIsCurrent(c)'
      BY <1>1, <2>1 DEF HistoryIsCurrent
    <2>5. StageFitsScheme(c) => StageFitsScheme(c)'
      BY <1>1 DEF StageFitsScheme
    <2>6. SearchIsSound(c) => SearchIsSound(c)'
      BY <1>1 DEF SearchIsSound, NotCurrent
    <2>7. PrincipalIsOwner(c) => PrincipalIsOwner(c)'
      BY <1>1 DEF PrincipalIsOwner
    <2>8. FoundIsGood(c) => FoundIsGood(c)'
      BY <1>1 DEF FoundIsGood, Past
    <2>9. AskingIsSound(c) => AskingIsSound(c)'
      BY <1>1 DEF AskingIsSound
    <2> QED  BY <2>2, <2>3, <2>4, <2>5, <2>6, <2>7, <2>8, <2>9 DEF CallerInv
  <1>4. TypeOK'
    BY <1>1 DEF IndInv, TypeOK
  <1> QED  BY <1>1, <1>2, <1>3, <1>4 DEF GoodStep, IndInv

\* The rows of the keys and tokens stay sound, and what each request has found
\* out by its statements stays true of it, in every state of api_keys and
\* oauth_tokens that the handlers, the cleanup and the middleware reach.
THEOREM Invariance == Spec => []IndInv
  <1>1. IndInv /\ [Next]_vars => IndInv'
    BY NextStep, Stutter
  <1> QED  BY IndInit, <1>1, PTL DEF Spec

\* Every variable has its type, and whoever gets to Authz has a principal.
THEOREM TypeCorrect == Spec => []TypeOK
  <1>1. IndInv => TypeOK
    BY DEF IndInv
  <1> QED  BY Invariance, <1>1, PTL

\* Whoever the middleware lets in had at some moment of the request a good secret,
\* is taken for its owner, and its owner had the permission at some moment: the
\* statements of a request add up to nothing that was not granted.
THEOREM EveryAccessIsJustified == Spec => AccessIsJustified
  <1> DEFINE Justified ==
        \A c \in Callers : Answers(c, "ok") =>
          LET call == session[c].call IN
          /\ ever[c] \cap Accepts(call.scheme) # {}
          /\ call.scheme # "stream" =>
               /\ session[c].who.id = owner[session[c].secret]
               /\ Unchecked(call) \/ ever[c] \cap Permissions # {}
  <1>1. IndInv /\ [Next]_vars => [Justified]_vars
    <2> SUFFICES ASSUME IndInv, Next PROVE Justified
      OBVIOUS
    <2>1. \A c \in Callers : Answers(c, "ok") => MayPass(c)
      BY NextStep DEF Answers, GoodAnswer
    <2> QED  BY <2>1 DEF MayPass
  <1> QED  BY Invariance, <1>1, PTL DEF Spec, AccessIsJustified

\* Whoever had a good secret, or the permission, all the while is not refused for
\* the lack of it, however keys are rotated and cleaned up between the statements.
THEOREM EveryAccessIsReliable == Spec => AccessIsReliable
  <1> DEFINE Reliable ==
        \A c \in Callers : ~Busy(c)' /\ Busy(c) /\ ~answer'[c].unlucky =>
          LET call == session[c].call IN
          /\ Answers(c, "unauthorized") => always[c] \cap Accepts(call.scheme) = {}
          /\ Answers(c, "forbidden") =>
               /\ ~Unchecked(call)
               /\ session[c].who.type # "api_key_rotated" => always[c] \cap Permissions = {}
  <1>1. IndInv /\ [Next]_vars => [Reliable]_vars
    <2> SUFFICES ASSUME IndInv, Next PROVE Reliable
      OBVIOUS
    <2>1. \A c \in Callers : ~Busy(c)' /\ Busy(c) /\ ~answer'[c].unlucky =>
            /\ Answers(c, "unauthorized") => MayRefuse(c)
            /\ Answers(c, "forbidden") => MayForbid(c)
      BY NextStep DEF Answers, GoodAnswer
    <2> QED  BY <2>1 DEF MayRefuse, MayForbid
  <1> QED  BY Invariance, <1>1, PTL DEF Spec, AccessIsReliable

=============================================================================
