------------------------------ MODULE TokenTrust ------------------------------
(***************************************************************************)
(* Signed tokens, their issuers' keys, and the verifiers that cache them.    *)
(* The sandbox-launcher accepts its callers' tokens from Backstage and from  *)
(* Keycloak, in this order; ext-proc accepts the users' tokens of Keycloak   *)
(* and the session tokens of jit-approver.  Each fetches an issuer's key set *)
(* when the cached one is older than a TTL, but they differ in what they do  *)
(* with a key they do not know and with a fetch that fails.                  *)
(*                                                                           *)
(* Keys are numbered in the order in which an issuer generates them.  The    *)
(* kid tells keys apart, except for jit-approver's: JIT_SIGNING_KID is the   *)
(* same for every key it ever generates.                                     *)
(***************************************************************************)
EXTENDS Naturals, Sequences

CONSTANTS
  Request,    \* requests that carry a token
  MaxKeys,    \* bound on the keys of an issuer, and only one issuer changes them
  Ttl,        \* ticks that a fetched key set is used
  FetchTime   \* time-out of a fetch, in ticks

ASSUME BoundsAssumption == /\ {MaxKeys, Ttl} \subseteq Nat \ {0}
                           /\ FetchTime \in Nat

Issuer == {"rhdh", "keycloak", "approver"}
Key    == 1 .. MaxKeys
Longest == Ttl + FetchTime + 1

VARIABLES
  trusted,   \* the verifier: the issuers it tries, in order
  stable,    \* jit-approver loads its key from JIT_SIGNING_KEY_PATH
  newest,    \* the key that an issuer signs with
  published, \* the keys in an issuer's key set
  gone,      \* ticks since a key was taken out of the set
  outage,    \* a fetch of ext-proc's failed
  cache, age,   \* the verifier's key sets, and their age
  token, place, \* a request's token, and how far its verification is
  issuer,       \* the issuer that is tried
  held,      \* the keys a request has: the cached ones while it asks the issuer
             \* for the set, then the set that is on its way to it
  flight,    \* for how many ticks it is
  forced        \* the request has already forced a fetch

issuers  == <<newest, published, gone>>
caches   == <<cache, age>>
requests == <<token, place, issuer, held, flight, forced>>
vars == <<trusted, stable, issuers, outage, caches, requests>>

Launcher == <<"rhdh", "keycloak">>
IsLauncher == trusted = Launcher
Trusted == {trusted[n] : n \in DOMAIN trusted}

Token == [iss : Issuer, key : Key, live : BOOLEAN]
Some == CHOOSE t \in Token : TRUE

TypeOK ==
  /\ trusted \in {Launcher, <<"keycloak">>, <<"approver">>}
  /\ stable \in BOOLEAN /\ outage \in BOOLEAN
  /\ newest \in [Issuer -> Key]
  /\ published \in [Issuer -> SUBSET Key]
  /\ gone \in [Issuer -> [Key -> 0 .. Longest]]
  /\ cache \in [Issuer -> SUBSET Key] /\ age \in [Issuer -> 0 .. Ttl]
  /\ token \in [Request -> Token]
  /\ place \in [Request -> {"idle", "look", "fetch", "answered", "verified"}]
  /\ issuer \in [Request -> 1 .. 2]
  /\ held \in [Request -> SUBSET Key]
  /\ flight \in [Request -> 0 .. FetchTime]
  /\ forced \subseteq Request

Init ==
  /\ trusted \in {Launcher, <<"keycloak">>, <<"approver">>}
  /\ stable \in BOOLEAN /\ outage = FALSE
  /\ newest = [i \in Issuer |-> 1]
  /\ published = [i \in Issuer |-> {1}]
  /\ gone = [i \in Issuer |-> [k \in Key |-> 0]]
  /\ cache = [i \in Issuer |-> {}] /\ age = [i \in Issuer |-> Ttl]
  /\ token = [r \in Request |-> Some]
  /\ place = [r \in Request |-> "idle"]
  /\ issuer = [r \in Request |-> 1]
  /\ held = [r \in Request |-> {}] /\ flight = [r \in Request |-> 0]
  /\ forced = {}

-----------------------------------------------------------------------------
(* The issuers.                                                              *)

\* external: Backstage or Keycloak adds a key, and signs with it.
Rotate(i) ==
  /\ i \in Trusted \ {"approver"} /\ newest[i] < MaxKeys
  /\ \A j \in Issuer \ {i} : newest[j] = 1
  /\ newest' = [newest EXCEPT ![i] = @ + 1]
  /\ published' = [published EXCEPT ![i] = @ \union {newest[i] + 1}]
  /\ UNCHANGED <<trusted, stable, gone, outage, caches, requests>>

\* external: an old key is taken out of the set.
Withdraw(i, k) ==
  /\ k \in published[i] /\ k # newest[i]
  /\ published' = [published EXCEPT ![i] = @ \ {k}]
  /\ UNCHANGED <<trusted, stable, newest, gone, outage, caches, requests>>

\* A restart of jit-approver: _keys loads the PEM, or generates another key.
RestartApprover ==
  /\ "approver" \in Trusted /\ ~stable /\ newest["approver"] < MaxKeys
  /\ newest' = [newest EXCEPT !["approver"] = @ + 1]
  /\ published' = [published EXCEPT !["approver"] = {newest["approver"] + 1}]
  /\ UNCHANGED <<trusted, stable, gone, outage, caches, requests>>

Older(ticks) == IF ticks < Ttl THEN ticks + 1 ELSE Ttl

Tick ==
  /\ \A r \in Request : place[r] = "answered" => flight[r] < FetchTime
  /\ \E i \in Issuer : \/ cache[i] # {} /\ age[i] < Ttl
                       \/ \E k \in 1 .. newest[i] \ published[i] : gone[i][k] < Longest
                       \/ \E r \in Request : place[r] = "answered"
  /\ age' = [i \in Issuer |-> Older(age[i])]
  /\ gone' = [i \in Issuer |-> [k \in Key |->
       IF k <= newest[i] /\ k \notin published[i] /\ gone[i][k] < Longest
       THEN gone[i][k] + 1 ELSE gone[i][k]]]
  /\ flight' = [r \in Request |-> IF place[r] = "answered" THEN flight[r] + 1 ELSE 0]
  /\ UNCHANGED <<trusted, stable, newest, published, outage, cache, token, place,
                 issuer, held, forced>>

-----------------------------------------------------------------------------
(* The verifiers.                                                            *)

\* What the verifier makes of the keys it has for a token: with the right key it
\* looks at the claims, with another one, or none, the token does not verify.
Known(t, i, keys) == \/ i = "approver" /\ keys # {}
                     \/ t.iss = i /\ t.key \in keys
Verifies(t, i, keys) == t.iss = i /\ t.key \in keys
Expired(t, i, keys) == Verifies(t, i, keys) /\ ~t.live

At(r) == trusted[issuer[r]]

Move(r, to) == place' = [place EXCEPT ![r] = to] /\ UNCHANGED <<token, issuer>>

\* The request is over.
Leave(r) == /\ place' = [place EXCEPT ![r] = "idle"]
            /\ token' = [token EXCEPT ![r] = Some]
            /\ issuer' = [issuer EXCEPT ![r] = 1]
            /\ forced' = forced \ {r}

\* This issuer does not verify the token: the launcher tries the next one, and
\* after the last the token is denied.
NextIssuer(r) ==
  \/ /\ issuer[r] < Len(trusted)
     /\ issuer' = [issuer EXCEPT ![r] = @ + 1]
     /\ place' = [place EXCEPT ![r] = "look"]
     /\ UNCHANGED <<token, forced>>
  \/ issuer[r] = Len(trusted) /\ Leave(r)

\* The decision with the set of keys that the verifier got.  A key that ext-proc
\* does not know makes it fetch once more; the launcher has no better idea than
\* to try the keys it has.
Judge(r, keys) ==
  \/ /\ Verifies(token[r], At(r), keys) /\ token[r].live
     /\ Move(r, "verified") /\ UNCHANGED forced
  \/ Expired(token[r], At(r), keys) /\ Leave(r)
  \/ /\ ~Verifies(token[r], At(r), keys)
     /\ IsLauncher \/ Known(token[r], At(r), keys) \/ r \in forced
     /\ NextIssuer(r)
  \/ /\ ~IsLauncher /\ ~Known(token[r], At(r), keys) /\ r \notin forced
     /\ Move(r, "look") /\ forced' = forced \union {r}

\* A request comes with a token that its issuer signed at some time.  Launches
\* follow one another on the launcher's event loop; ext-proc's streams do not.
Present(r, t) ==
  /\ place[r] = "idle"
  /\ IsLauncher => \A q \in Request : place[q] = "idle"
  /\ t.iss \in Trusted /\ t.key <= newest[t.iss]
  /\ token' = [token EXCEPT ![r] = t]
  /\ place' = [place EXCEPT ![r] = "look"]
  /\ UNCHANGED <<trusted, stable, issuers, outage, caches, issuer, held, flight, forced>>

FreshForever(i) == cache[i] # {}
Fresh(i) == cache[i] # {} /\ age[i] < Ttl

\* The cached keys are taken as they are before a fetch, not while or after it.
Look(r) ==
  /\ place[r] = "look"
  /\ \/ Fresh(At(r)) /\ r \notin forced /\ Judge(r, cache[At(r)]) /\ UNCHANGED held
     \/ /\ ~Fresh(At(r)) \/ r \in forced
        /\ Move(r, "fetch") /\ UNCHANGED forced
        /\ held' = [held EXCEPT ![r] = cache[At(r)]]
  /\ UNCHANGED <<trusted, stable, issuers, outage, caches, flight>>

\* The issuer answers; the answer takes its time.
IssuerAnswers(r) ==
  /\ place[r] = "fetch"
  /\ place' = [place EXCEPT ![r] = "answered"]
  /\ held' = [held EXCEPT ![r] = published[At(r)]]
  /\ flight' = [flight EXCEPT ![r] = 0]
  /\ UNCHANGED <<trusted, stable, issuers, outage, caches, token, issuer, forced>>

\* The answer arrives: it is cached, whatever came in between, and used.
Install(r) ==
  /\ place[r] = "answered"
  /\ cache' = [cache EXCEPT ![At(r)] = held[r]]
  /\ age' = [age EXCEPT ![At(r)] = 0]
  /\ Judge(r, held[r])
  /\ held' = [held EXCEPT ![r] = {}]
  /\ flight' = [flight EXCEPT ![r] = 0]
  /\ UNCHANGED <<trusted, stable, issuers, outage>>

FetchFailsStale(r) ==
  /\ place[r] = "fetch"
  /\ outage' = ~IsLauncher
  /\ \/ held[r] # {} /\ Judge(r, held[r])
     \/ held[r] = {} /\ NextIssuer(r)
  /\ held' = [held EXCEPT ![r] = {}]
  /\ UNCHANGED <<trusted, stable, issuers, caches, flight>>

FetchFailsAll(r) ==
  /\ place[r] = "fetch"
  /\ outage' = ~IsLauncher
  /\ Leave(r)
  /\ held' = [held EXCEPT ![r] = {}]
  /\ UNCHANGED <<trusted, stable, issuers, caches, flight>>

\* The fetch fails: the launcher goes on without this issuer, however recent the
\* keys it has; ext-proc uses the keys that it had before the fetch, however old.
FetchFails(r) ==
  /\ place[r] = "fetch"
  /\ outage' = ~IsLauncher
  /\ \/ IsLauncher /\ NextIssuer(r)
     \/ ~IsLauncher /\ held[r] # {} /\ Judge(r, held[r])
     \/ ~IsLauncher /\ held[r] = {} /\ Leave(r)
  /\ held' = [held EXCEPT ![r] = {}]
  /\ UNCHANGED <<trusted, stable, issuers, caches, flight>>

\* The verified claims name the user that the request is from, or somebody else,
\* or nobody: in any case the verifier is done with the token.
Identify(r) ==
  /\ place[r] = "verified"
  /\ Leave(r)
  /\ UNCHANGED <<trusted, stable, issuers, outage, caches, held, flight>>

Verify(r) == \/ Look(r) \/ IssuerAnswers(r) \/ Install(r) \/ FetchFails(r)
             \/ Identify(r)

Next == \/ \E i \in Issuer : Rotate(i) \/ \E k \in Key : Withdraw(i, k)
        \/ RestartApprover
        \/ \E r \in Request : Verify(r) \/ \E t \in Token : Present(r, t)
        \/ Tick

Spec == Init /\ [][Next]_vars

\* Tokens keep coming, fetches are answered now and then, and time passes.
Newest(i) == [iss |-> i, key |-> newest[i], live |-> TRUE]
FairSpec ==
  /\ Spec /\ WF_vars(Tick)
  /\ \A r \in Request : WF_vars(Verify(r))
  /\ \A i \in Issuer : /\ SF_vars(\E r \in Request : Present(r, Newest(i)))
                        /\ SF_vars(\E r \in Request : At(r) = i /\ IssuerAnswers(r))

-----------------------------------------------------------------------------
(* Properties.                                                               *)

\* auth.py:55, jwks.go:282 - a key that its issuer took back is trusted for no
\* longer than the TTL and one fetch, wherever and in whatever order the answers
\* were cached; ext-proc may trust it longer while it cannot fetch.
Withdrawn(t) == /\ t.key \notin published[t.iss]
                /\ gone[t.iss][t.key] > Ttl + FetchTime
TrustExpires == [][
  \A r \in Request : place[r] # "verified" /\ place'[r] = "verified" =>
    token[r].live /\ (IsLauncher \/ ~outage' => ~Withdrawn(token[r]))
  ]_vars

Denied(r) == place[r] \in {"look", "fetch", "answered"} /\ place'[r] = "idle"

\* auth.py:208, jwks.go:290 - whatever the other issuer's endpoint does, a live token
\* is turned down only if its own issuer's keys lack its key, or cannot be fetched and
\* ext-proc had not the key when it began to fetch.  And (signing.py:28) with a mounted
\* key a session token outlives the restarts of the approver: it is denied only by a
\* verifier that had no keys yet when it began to fetch them.
DeniedForCause == [][
  \A r \in Request : Denied(r) /\ token[r].live =>
    LET t == token[r] IN
    /\ IF At(r) # t.iss       THEN ~(Fresh(t.iss) /\ t.key \in cache[t.iss])
       ELSE IF place[r] = "fetch" THEN IsLauncher \/ t.key \notin held[r]
       ELSE t.key \notin cache'[t.iss]
    /\ stable /\ At(r) = "approver" => place[r] = "fetch" /\ held[r] = {}
  ]_vars

\* signing.py:15 - after its keys have changed for the last time, an issuer's
\* current key comes to be cached, and stays so.
CacheFollows == \A i \in Issuer :
  i \in Trusted => <>[](newest[i] \in cache[i])
=============================================================================
