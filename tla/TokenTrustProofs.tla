--------------------------- MODULE TokenTrustProofs ---------------------------
(* Theorems about the cached key sets, for any number of requests and all       *)
(* bounds.                                                                      *)
EXTENDS TokenTrust, TLAPS

\* A key that is published, or not generated yet, was never taken out.
IssuersInv == \A i \in Issuer, k \in Key :
  k \in published[i] \/ k > newest[i] => gone[i][k] = 0

\* A request that is being verified tries an issuer that the verifier has, and its token
\* was signed by one of them.
PlaceInv == \A r \in Request :
  /\ issuer[r] <= Len(trusted)
  /\ place[r] = "idle" => issuer[r] = 1
  /\ place[r] # "idle" => /\ token[r].iss \in Trusted
                          /\ token[r].key <= newest[token[r].iss]

\* A key set is no older than the time that it is cached and one fetch.
AgesInv ==
  /\ \A i \in Issuer : age[i] < Ttl =>
       \A k \in cache[i] : k \in published[i] \/ gone[i][k] <= age[i] + FetchTime
  /\ \A r \in Request : place[r] = "answered" =>
       \A k \in held[r] : k \in published[At(r)] \/ gone[At(r)][k] <= flight[r]

Active(r) == place[r] # "idle"

\* The launcher verifies one token at a time.  It forces no fetch, fetches no set that it
\* has, and goes on to the second issuer only without the first one's key for the token.
LauncherInv == IsLauncher =>
  /\ forced = {}
  /\ \A q, r \in Request : Active(q) /\ Active(r) => q = r
  /\ \A r \in Request :
       /\ place[r] = "fetch" => ~Fresh(At(r))
       /\ /\ place[r] \in {"look", "fetch", "answered"}
          /\ issuer[r] = 2 /\ token[r].iss = "rhdh" /\ token[r].live
          => ~(Fresh("rhdh") /\ token[r].key \in cache["rhdh"])

\* With a mounted key jit-approver has only this one, and no other is ever cached.
StableInv == stable /\ trusted = <<"approver">> =>
  /\ newest["approver"] = 1 /\ published["approver"] = {1}
  /\ cache["approver"] \in {{}, {1}}
  /\ \A r \in Request : /\ place[r] = "answered" => held[r] = {1}
                        /\ place[r] = "fetch" => held[r] \in {{}, {1}}

Inv == TypeOK /\ IssuersInv /\ PlaceInv /\ AgesInv /\ LauncherInv /\ StableInv

------------------------------------------------------------------------------

\* Who is tried, in which order.
LEMMA Verifiers ==
  ASSUME TypeOK
  PROVE  /\ IsLauncher => /\ Len(trusted) = 2 /\ trusted[1] = "rhdh"
                          /\ trusted[2] = "keycloak" /\ Trusted = {"rhdh", "keycloak"}
         /\ ~IsLauncher => /\ Len(trusted) = 1 /\ Trusted = {trusted[1]}
                           /\ trusted[1] \in {"keycloak", "approver"}
         /\ trusted = <<"approver">> => ~IsLauncher /\ trusted[1] = "approver"
         /\ ~IsLauncher /\ trusted[1] = "approver" => trusted = <<"approver">>
         /\ Trusted \subseteq Issuer
<1>1. CASE trusted = Launcher
  BY <1>1 DEF IsLauncher, Launcher, Trusted, Issuer
<1>2. CASE trusted = <<"keycloak">>
  <2>1. trusted # Launcher /\ trusted # <<"approver">>
    BY <1>2 DEF Launcher
  <2> QED
    BY <1>2, <2>1 DEF IsLauncher, Trusted, Issuer
<1>3. CASE trusted = <<"approver">>
  <2>1. trusted # Launcher
    BY <1>3 DEF Launcher
  <2> QED
    BY <1>3, <2>1 DEF IsLauncher, Trusted, Issuer
<1> QED
  BY <1>1, <1>2, <1>3 DEF TypeOK

LEMMA Tried ==
  ASSUME TypeOK, PlaceInv, NEW r \in Request
  PROVE  /\ At(r) \in Issuer /\ At(r) \in Trusted
         /\ ~IsLauncher => At(r) = trusted[1] /\ issuer[r] = 1
         /\ IsLauncher => \/ issuer[r] = 1 /\ At(r) = "rhdh"
                          \/ issuer[r] = 2 /\ At(r) = "keycloak"
<1>1. issuer[r] \in 1 .. 2 /\ issuer[r] <= Len(trusted)
  BY DEF TypeOK, PlaceInv
<1> QED
  BY <1>1, Verifiers DEF At, Issuer

LEMMA SomeToken == Some \in Token
<1>1. [iss |-> "rhdh", key |-> 1, live |-> TRUE] \in Token
  BY BoundsAssumption DEF Token, Issuer, Key
<1> QED
  BY <1>1 DEF Some

LEMMA InitInv == Init => Inv
<1> SUFFICES ASSUME Init PROVE Inv
  OBVIOUS
<1>1. TypeOK
  <2>1. 1 \in Key /\ 0 \in 0 .. Longest /\ Ttl \in 0 .. Ttl /\ 0 \in 0 .. FetchTime
    BY BoundsAssumption DEF Key, Longest
  <2>2. /\ newest \in [Issuer -> Key]
        /\ published \in [Issuer -> SUBSET Key]
        /\ gone \in [Issuer -> [Key -> 0 .. Longest]]
        /\ cache \in [Issuer -> SUBSET Key] /\ age \in [Issuer -> 0 .. Ttl]
    BY <2>1 DEF Init
  <2>3. /\ token \in [Request -> Token]
        /\ held \in [Request -> SUBSET Key]
        /\ flight \in [Request -> 0 .. FetchTime]
    BY <2>1, SomeToken DEF Init
  <2>4. trusted \in {Launcher, <<"keycloak">>, <<"approver">>}
    BY DEF Init
  <2>5. /\ place \in [Request -> {"idle", "look", "fetch", "answered", "verified"}]
        /\ issuer \in [Request -> 1 .. 2]
        /\ forced \subseteq Request
    BY DEF Init
  <2>6. stable \in BOOLEAN /\ outage \in BOOLEAN
    BY Zenon DEF Init
  <2> QED
    BY <2>2, <2>3, <2>4, <2>5, <2>6 DEF TypeOK
<1>2. PlaceInv
  <2>1. 1 <= Len(trusted)
    BY <1>1, Verifiers
  <2>2. \A r \in Request : issuer[r] = 1 /\ place[r] = "idle"
    BY DEF Init
  <2> QED
    BY <2>1, <2>2 DEF PlaceInv
<1>3. IssuersInv /\ AgesInv /\ LauncherInv /\ StableInv
  BY BoundsAssumption
     DEF Init, IssuersInv, AgesInv, LauncherInv, StableInv, Active, Fresh, Key, Issuer
<1> QED
  BY <1>1, <1>2, <1>3 DEF Inv

Places == {"idle", "look", "fetch", "answered", "verified"}

\* What a request can have come to when its token was judged, or its issuer given up.
Turned(r) ==
  /\ token' \in [Request -> Token] /\ place' \in [Request -> Places]
  /\ issuer' \in [Request -> 1 .. 2] /\ forced' \subseteq Request
  /\ \A q \in Request \ {r} :
       place'[q] = place[q] /\ token'[q] = token[q] /\ issuer'[q] = issuer[q]
  /\ place'[r] \in {"idle", "look", "fetch", "verified"}
  /\ place'[r] = "idle" => issuer'[r] = 1
  /\ place'[r] # "idle" => token'[r] = token[r]
  /\ place'[r] = "look" => \/ issuer[r] < Len(trusted) /\ issuer'[r] = issuer[r] + 1
                           \/ ~IsLauncher /\ issuer'[r] = issuer[r]
  /\ IsLauncher => forced' \subseteq forced
  /\ place'[r] \in {"fetch", "verified"} => issuer'[r] = issuer[r]

LEMMA LeaveTurns ==
  ASSUME TypeOK, NEW r \in Request, Leave(r)
  PROVE  Turned(r) /\ place'[r] = "idle"
BY SomeToken DEF Leave, TypeOK, Turned, Places

LEMMA NextIssuerTurns ==
  ASSUME TypeOK, NEW r \in Request, NextIssuer(r)
  PROVE  /\ Turned(r)
         /\ place'[r] \in {"look", "idle"}
         /\ place'[r] = "idle" => issuer[r] = Len(trusted)
<1>0. Len(trusted) \in {1, 2}
  BY Verifiers
<1>1. CASE /\ issuer[r] < Len(trusted)
           /\ issuer' = [issuer EXCEPT ![r] = @ + 1]
           /\ place' = [place EXCEPT ![r] = "look"]
           /\ UNCHANGED <<token, forced>>
  <2>1. issuer[r] = 1
    <3>1. issuer[r] \in 1 .. 2
      BY DEF TypeOK
    <3> QED
      BY <1>0, <1>1, <3>1
  <2>2. issuer' = [issuer EXCEPT ![r] = 2]
    BY <1>1, <2>1
  <2> QED
    BY <1>1, <2>1, <2>2 DEF TypeOK, Turned, Places
<1>2. CASE issuer[r] = Len(trusted) /\ Leave(r)
  BY <1>2, LeaveTurns
<1> QED
  BY <1>1, <1>2 DEF NextIssuer

LEMMA JudgeTurns ==
  ASSUME TypeOK, NEW r \in Request, NEW keys, Judge(r, keys)
  PROVE  /\ Turned(r)
         /\ place'[r] # "fetch"
         /\ place'[r] = "look" => ~Verifies(token[r], At(r), keys)
         /\ place'[r] = "verified" => Verifies(token[r], At(r), keys) /\ token[r].live
         /\ place'[r] = "idle" /\ token[r].live =>
              ~Verifies(token[r], At(r), keys) /\ issuer[r] = Len(trusted)
<1>1. CASE Verifies(token[r], At(r), keys) /\ token[r].live /\ Move(r, "verified") /\ UNCHANGED forced
  BY <1>1 DEF Move, TypeOK, Turned, Places
<1>2. CASE Expired(token[r], At(r), keys) /\ Leave(r)
  BY <1>2, LeaveTurns DEF Expired
<1>3. CASE ~Verifies(token[r], At(r), keys) /\ NextIssuer(r)
  BY <1>3, NextIssuerTurns
<1>4. CASE /\ ~IsLauncher /\ ~Known(token[r], At(r), keys)
           /\ Move(r, "look") /\ forced' = forced \union {r}
  BY <1>4 DEF Move, TypeOK, Turned, Places, Known, Verifies
<1> QED
  BY <1>1, <1>2, <1>3, <1>4 DEF Judge


LEMMA MoveTurns ==
  ASSUME TypeOK, NEW r \in Request, Move(r, "fetch"), UNCHANGED forced
  PROVE  Turned(r) /\ place'[r] = "fetch"
BY DEF Move, TypeOK, Turned, Places

------------------------------------------------------------------------------

\* The requests after a turn of one of them.
LEMMA TurnedRequests ==
  ASSUME TypeOK, PlaceInv, NEW r \in Request, Turned(r), place[r] # "idle",
         UNCHANGED <<trusted, newest>>
  PROVE  /\ PlaceInv'
         /\ \A q \in Request : place'[q] # "idle" => place[q] # "idle"
         /\ \A q \in Request : place'[q] = "answered" =>
              q # r /\ place[q] = "answered" /\ At(q)' = At(q)
         /\ place'[r] \in {"fetch", "verified"} => At(r)' = At(r)
<1>1. issuer'[r] <= Len(trusted)
  <2>1. issuer[r] \in 1 .. 2 /\ issuer[r] <= Len(trusted) /\ Len(trusted) \in {1, 2}
    BY Verifiers DEF PlaceInv, TypeOK
  <2>2. place'[r] = "look" => issuer'[r] <= Len(trusted)
    BY <2>1 DEF Turned
  <2>3. place'[r] = "idle" => issuer'[r] <= Len(trusted)
    BY <2>1 DEF Turned
  <2>4. place'[r] \in {"fetch", "verified"} => issuer'[r] <= Len(trusted)
    BY <2>1 DEF Turned
  <2> QED
    BY <2>2, <2>3, <2>4 DEF Turned
<1>2. PlaceInv'
  BY <1>1 DEF PlaceInv, Turned, Trusted
<1>3. \A q \in Request : place'[q] = "answered" =>
        q # r /\ place[q] = "answered" /\ At(q)' = At(q)
  BY DEF Turned, At
<1>4. place'[r] \in {"fetch", "verified"} => At(r)' = At(r)
  BY DEF Turned, At
<1> QED
  BY <1>2, <1>3, <1>4 DEF Turned

LEMMA TurnedType ==
  ASSUME TypeOK, NEW r \in Request, Turned(r),
         UNCHANGED <<trusted, stable, issuers>>, outage' \in BOOLEAN,
         cache' \in [Issuer -> SUBSET Key], age' \in [Issuer -> 0 .. Ttl],
         held' \in [Request -> SUBSET Key], flight' \in [Request -> 0 .. FetchTime]
  PROVE  TypeOK'
<1>1. /\ newest' \in [Issuer -> Key]
      /\ published' \in [Issuer -> SUBSET Key]
      /\ gone' \in [Issuer -> [Key -> 0 .. Longest]]
      /\ trusted' \in {Launcher, <<"keycloak">>, <<"approver">>}
  BY DEF TypeOK, issuers
<1>2. stable' \in BOOLEAN
  BY Zenon DEF TypeOK
<1>3. /\ token' \in [Request -> Token] /\ place' \in [Request -> Places]
      /\ issuer' \in [Request -> 1 .. 2] /\ forced' \subseteq Request
  BY DEF Turned
<1> QED
  BY <1>1, <1>2, <1>3 DEF TypeOK, Places

------------------------------------------------------------------------------

\* What an issuer does with its keys.
KeysChange ==
  /\ newest' \in [Issuer -> Key] /\ published' \in [Issuer -> SUBSET Key]
  /\ \A i \in Issuer, k \in Key :
       /\ newest[i] <= newest'[i]
       /\ k \in published'[i] \/ k > newest'[i] => k \in published[i] \/ k > newest[i]
  /\ stable /\ trusted = <<"approver">> =>
       newest'["approver"] = newest["approver"] /\ published'["approver"] = published["approver"]
  /\ UNCHANGED <<trusted, stable, gone, outage, caches, requests>>

LEMMA IssuersChange ==
  ASSUME Inv,
         \/ \E i \in Issuer : Rotate(i) \/ \E k \in Key : Withdraw(i, k)
         \/ RestartApprover
  PROVE  KeysChange
<1> TypeOK
  BY DEF Inv
<1>0. ASSUME NEW i \in Issuer PROVE newest[i] \in Nat /\ newest[i] >= 1 /\ newest[i] <= MaxKeys
                                    /\ MaxKeys \in Nat
  BY BoundsAssumption DEF TypeOK, Key
<1>1. ASSUME NEW i \in Issuer, Rotate(i) PROVE KeysChange
  <2>1. i # "approver" /\ UNCHANGED <<trusted, stable, gone, outage, caches, requests>>
    BY <1>1 DEF Rotate
  <2>2. newest[i] + 1 \in Key
    BY <1>0, <1>1 DEF Rotate, Key
  <2>3. newest' = [newest EXCEPT ![i] = newest[i] + 1]
        /\ published' = [published EXCEPT ![i] = published[i] \union {newest[i] + 1}]
    BY <1>1 DEF Rotate
  <2>4. newest' \in [Issuer -> Key] /\ published' \in [Issuer -> SUBSET Key]
    BY <2>2, <2>3 DEF TypeOK
  <2>5. ASSUME NEW j \in Issuer, NEW k \in Key
        PROVE /\ newest[j] <= newest'[j]
              /\ k \in published'[j] \/ k > newest'[j] => k \in published[j] \/ k > newest[j]
    <3>1. k \in Nat
      BY BoundsAssumption DEF Key
    <3>2. CASE j = i
      BY <3>1, <3>2, <1>0, <2>3 DEF TypeOK
    <3>3. CASE j # i
      BY <3>1, <3>3, <1>0, <2>3 DEF TypeOK
    <3> QED
      BY <3>2, <3>3
  <2>6. newest'["approver"] = newest["approver"] /\ published'["approver"] = published["approver"]
    BY <2>1, <2>3 DEF TypeOK, Issuer
  <2> QED
    BY <2>1, <2>4, <2>5, <2>6 DEF KeysChange
<1>2. ASSUME NEW i \in Issuer, NEW k \in Key, Withdraw(i, k) PROVE KeysChange
  <2>1. UNCHANGED <<trusted, stable, newest, gone, outage, caches, requests>>
        /\ published' = [published EXCEPT ![i] = published[i] \ {k}]
        /\ k \in published[i] /\ k # newest[i]
    BY <1>2 DEF Withdraw
  <2>2. newest' \in [Issuer -> Key] /\ published' \in [Issuer -> SUBSET Key]
    BY <2>1 DEF TypeOK
  <2>3. \A j \in Issuer : newest[j] <= newest'[j] /\ published'[j] \subseteq published[j]
    BY <2>1, <1>0 DEF TypeOK
  <2>4. stable /\ trusted = <<"approver">> => published'["approver"] = published["approver"]
    BY <2>1 DEF Inv, StableInv, TypeOK, Issuer
  <2> QED
    BY <2>1, <2>2, <2>3, <2>4 DEF KeysChange
<1>3. ASSUME RestartApprover PROVE KeysChange
  <2> DEFINE a == "approver"
  <2> a \in Issuer
    BY DEF Issuer
  <2>1. ~stable /\ UNCHANGED <<trusted, stable, gone, outage, caches, requests>>
    BY <1>3 DEF RestartApprover
  <2>2. newest[a] + 1 \in Key
    BY <1>0, <1>3 DEF RestartApprover, Key
  <2>3. newest' = [newest EXCEPT ![a] = newest[a] + 1]
        /\ published' = [published EXCEPT ![a] = {newest[a] + 1}]
    BY <1>3 DEF RestartApprover
  <2> HIDE DEF a
  <2>4. newest' \in [Issuer -> Key] /\ published' \in [Issuer -> SUBSET Key]
    BY <2>2, <2>3 DEF TypeOK
  <2>5. ASSUME NEW j \in Issuer, NEW k \in Key
        PROVE /\ newest[j] <= newest'[j]
              /\ k \in published'[j] \/ k > newest'[j] => k \in published[j] \/ k > newest[j]
    <3>1. k \in Nat
      BY BoundsAssumption DEF Key
    <3>2. CASE j = a
      BY <3>1, <3>2, <1>0, <2>3 DEF TypeOK
    <3>3. CASE j # a
      BY <3>1, <3>3, <1>0, <2>3 DEF TypeOK
    <3> QED
      BY <3>2, <3>3
  <2> QED
    BY <2>1, <2>4, <2>5 DEF KeysChange
<1> QED
  BY <1>1, <1>2, <1>3

LEMMA IssuersStep ==
  ASSUME Inv, KeysChange
  PROVE  Inv'
<1> TypeOK
  BY DEF Inv
<1> UNCHANGED <<trusted, gone, cache, age, token, place, issuer, held, flight, forced>>
  BY DEF KeysChange, caches, requests
<1>1. TypeOK'
  <2>1. stable' \in BOOLEAN /\ outage' \in BOOLEAN
    BY Zenon DEF TypeOK, KeysChange
  <2> QED
    BY <2>1 DEF TypeOK, KeysChange
<1>2. IssuersInv'
  BY DEF Inv, IssuersInv, KeysChange
<1>3. PlaceInv'
  <2> SUFFICES ASSUME NEW r \in Request, place[r] # "idle"
               PROVE  token[r].key <= newest'[token[r].iss]
    BY DEF Inv, PlaceInv, Trusted
  <2>1. token[r].iss \in Issuer /\ token[r].key \in Nat
    BY BoundsAssumption DEF TypeOK, Token, Key
  <2>2. newest[token[r].iss] \in Nat /\ newest'[token[r].iss] \in Nat
    BY <2>1, BoundsAssumption DEF TypeOK, KeysChange, Key
  <2>3. token[r].key \in Key
    BY DEF TypeOK, Token
  <2>4. token[r].key <= newest[token[r].iss]
    BY DEF Inv, PlaceInv
  <2>5. newest[token[r].iss] <= newest'[token[r].iss]
    BY <2>1, <2>3 DEF KeysChange
  <2> QED
    BY <2>1, <2>2, <2>4, <2>5
<1>4. AgesInv'
  <2>1. ASSUME NEW i \in Issuer, NEW k \in Key
        PROVE k \in published[i] => k \in published'[i] \/ gone[i][k] = 0
    BY DEF Inv, IssuersInv
  <2>2. ASSUME NEW i \in Issuer, age[i] < Ttl, NEW k \in cache[i]
        PROVE  k \in published'[i] \/ gone[i][k] <= age[i] + FetchTime
    <3>1. k \in Key /\ age[i] \in Nat
      BY BoundsAssumption DEF TypeOK
    <3> QED
      BY <2>1, <2>2, <3>1, BoundsAssumption DEF Inv, AgesInv
  <2>3. ASSUME NEW r \in Request, place[r] = "answered", NEW k \in held[r]
        PROVE  k \in published'[At(r)] \/ gone[At(r)][k] <= flight[r]
    <3>1. k \in Key /\ flight[r] \in Nat /\ At(r) \in Issuer
      BY BoundsAssumption, Tried DEF TypeOK, Inv
    <3> QED
      BY <2>1, <2>3, <3>1 DEF Inv, AgesInv
  <2> QED
    BY <2>2, <2>3 DEF AgesInv, At
<1>5. LauncherInv'
  BY DEF Inv, LauncherInv, IsLauncher, Active, Fresh, At
<1>6. StableInv'
  BY DEF Inv, StableInv, KeysChange
<1> QED
  BY <1>1, <1>2, <1>3, <1>4, <1>5, <1>6 DEF Inv

------------------------------------------------------------------------------

\* A turn of a request that changes neither the caches nor the sets on their way to
\* others; to fetch a set, the request takes down the cached keys.
LEMMA RequestStep ==
  ASSUME Inv, NEW r \in Request, Turned(r), place[r] # "idle",
         UNCHANGED <<trusted, stable, issuers, caches, flight>>,
         outage' \in BOOLEAN, held' \in [Request -> SUBSET Key],
         \A q \in Request : q # r => held'[q] = held[q],
         place'[r] = "fetch" => held'[r] = cache[At(r)],
         place[r] = "verified" => place'[r] = "idle",
         IsLauncher /\ place'[r] = "fetch" => ~Fresh(At(r)),
         IsLauncher /\ place'[r] = "look" /\ token[r].iss = "rhdh"
           => ~(Fresh("rhdh") /\ token[r].key \in cache["rhdh"])
  PROVE  Inv'
<1> TypeOK /\ PlaceInv
  BY DEF Inv
<1> UNCHANGED <<trusted, stable, newest, published, gone, cache, age, flight>>
  BY DEF issuers, caches
<1>1. TypeOK'
  BY TurnedType DEF TypeOK
<1>2. IssuersInv'
  BY DEF Inv, IssuersInv
<1>3. PlaceInv' /\ \A q \in Request : place'[q] # "idle" => place[q] # "idle"
  BY TurnedRequests
<1>4. AgesInv'
  <2>1. \A q \in Request : place'[q] = "answered" =>
          q # r /\ place[q] = "answered" /\ At(q)' = At(q)
    BY TurnedRequests
  <2> QED
    BY <2>1 DEF Inv, AgesInv
<1>5. LauncherInv'
  <2> SUFFICES ASSUME IsLauncher PROVE LauncherInv'
    BY DEF LauncherInv, IsLauncher
  <2>0. forced' = {}
    BY DEF Inv, LauncherInv, Turned
  <2>1. \A q, t \in Request : Active(q)' /\ Active(t)' => q = t
    BY <1>3 DEF Inv, LauncherInv, Active
  <2>2. \A q \in Request : q # r => place'[q] = "idle"
    BY DEF Inv, LauncherInv, Active, Turned
  <2>3. place'[r] = "fetch" => ~Fresh(At(r))'
    <3>1. place'[r] = "fetch" => At(r)' = At(r)
      BY TurnedRequests
    <3> QED
      BY <3>1 DEF Fresh
  <2>4. /\ place'[r] \in {"look", "fetch", "answered"}
        /\ issuer'[r] = 2 /\ token'[r].iss = "rhdh" /\ token'[r].live
        => ~(Fresh("rhdh") /\ token[r].key \in cache["rhdh"])'
    <3>1. CASE place'[r] = "look"
      BY <3>1 DEF Turned, Fresh
    <3>2. CASE place'[r] = "fetch"
      <4>1. place[r] \in {"look", "fetch", "answered"}
        BY <3>2 DEF TypeOK
      <4> QED
        BY <3>2, <4>1 DEF Inv, LauncherInv, Turned, Fresh
    <3> QED
      BY <3>1, <3>2 DEF Turned
  <2> QED
    BY <2>0, <2>1, <2>2, <2>3, <2>4 DEF LauncherInv
<1>6. StableInv'
  <2> SUFFICES ASSUME stable, trusted = <<"approver">> PROVE StableInv'
    BY DEF StableInv
  <2>1. \A q \in Request : place'[q] = "answered" => place[q] = "answered" /\ held'[q] = held[q]
    BY TurnedRequests
  <2>2. At(r) = "approver"
    BY Tried, Verifiers
  <2>3. \A q \in Request : place'[q] = "fetch" => held'[q] \in {{}, {1}}
    BY <2>2 DEF Inv, StableInv, Turned
  <2> QED
    BY <2>1, <2>3 DEF Inv, StableInv
<1> QED
  BY <1>1, <1>2, <1>3, <1>4, <1>5, <1>6 DEF Inv

LEMMA LookStep ==
  ASSUME Inv, NEW r \in Request, Look(r)
  PROVE  Inv' /\ Turned(r)
<1> TypeOK /\ PlaceInv
  BY DEF Inv
<1>0. /\ place[r] = "look" /\ place[r] # "idle" /\ place[r] # "verified"
      /\ UNCHANGED <<trusted, stable, issuers, caches, flight>>
  BY DEF Look
<1>h. /\ held' \in [Request -> SUBSET Key]
      /\ \A q \in Request : q # r => held'[q] = held[q]
      /\ place'[r] = "fetch" => held'[r] = cache[At(r)]
  <2>1. CASE UNCHANGED held /\ Judge(r, cache[At(r)])
    BY <2>1, JudgeTurns DEF TypeOK
  <2>2. CASE held' = [held EXCEPT ![r] = cache[At(r)]]
    BY <2>2, Tried DEF TypeOK
  <2> QED
    BY <2>1, <2>2 DEF Look
<1>1. outage' \in BOOLEAN
  BY Zenon DEF Look, TypeOK
<1>2. Turned(r)
  BY JudgeTurns, MoveTurns DEF Look
<1>3. IsLauncher /\ place'[r] = "fetch" => ~Fresh(At(r))
  BY JudgeTurns DEF Look, Inv, LauncherInv
<1>4. IsLauncher /\ place'[r] = "look" /\ token[r].iss = "rhdh"
        => ~(Fresh("rhdh") /\ token[r].key \in cache["rhdh"])
  <2> SUFFICES ASSUME IsLauncher, place'[r] = "look", token[r].iss = "rhdh"
               PROVE  token[r].key \notin cache["rhdh"]
    OBVIOUS
  <2>1. ~Verifies(token[r], At(r), cache[At(r)])
    BY JudgeTurns, MoveTurns DEF Look
  <2>2. At(r) = "rhdh"
    <3>1. issuer[r] < Len(trusted) /\ Len(trusted) = 2
      BY <1>2, Verifiers DEF Turned
    <3>2. issuer[r] = 1
      BY <3>1, Tried
    <3> QED
      BY <3>2, Verifiers DEF At
  <2> QED
    BY <2>1, <2>2 DEF Verifies
<1> QED
  BY <1>0, <1>h, <1>1, <1>2, <1>3, <1>4, RequestStep

LEMMA FetchFailsStep ==
  ASSUME Inv, NEW r \in Request, FetchFails(r)
  PROVE  Inv' /\ Turned(r)
<1> TypeOK /\ PlaceInv
  BY DEF Inv
<1>0. /\ place[r] = "fetch" /\ place[r] # "idle" /\ place[r] # "verified"
      /\ UNCHANGED <<trusted, stable, issuers, caches, flight>>
      /\ held' = [held EXCEPT ![r] = {}]
  BY DEF FetchFails
<1>h. held' \in [Request -> SUBSET Key] /\ \A q \in Request : q # r => held'[q] = held[q]
  BY <1>0 DEF TypeOK
<1>1. outage' \in BOOLEAN
  BY Zenon DEF FetchFails
<1>2. Turned(r)
  BY JudgeTurns, NextIssuerTurns, LeaveTurns DEF FetchFails
<1>3. IsLauncher => NextIssuer(r)
  BY DEF FetchFails
<1>4. place'[r] # "fetch"
  BY JudgeTurns, NextIssuerTurns, LeaveTurns DEF FetchFails
<1>5. IsLauncher /\ place'[r] = "look" => ~Fresh("rhdh")
  <2> SUFFICES ASSUME IsLauncher, place'[r] = "look" PROVE ~Fresh("rhdh")
    OBVIOUS
  <2>1. issuer[r] < Len(trusted) /\ Len(trusted) = 2
    BY <1>2, Verifiers DEF Turned
  <2>2. At(r) = "rhdh"
    BY <2>1, Tried
  <2> QED
    BY <1>0, <2>2 DEF Inv, LauncherInv
<1> QED
  BY <1>0, <1>h, <1>1, <1>2, <1>4, <1>5, RequestStep

LEMMA IdentifyStep ==
  ASSUME Inv, NEW r \in Request, Identify(r)
  PROVE  Inv' /\ Turned(r) /\ place'[r] = "idle"
<1> TypeOK
  BY DEF Inv
<1>1. outage' \in BOOLEAN
  BY Zenon DEF Identify, TypeOK
<1>2. Turned(r) /\ place'[r] = "idle" /\ place[r] # "idle"
  BY LeaveTurns DEF Identify
<1>3. UNCHANGED held /\ held \in [Request -> SUBSET Key]
  BY DEF Identify, TypeOK
<1> QED
  BY <1>1, <1>2, <1>3, RequestStep DEF Identify

LEMMA PresentStep ==
  ASSUME Inv, NEW r \in Request, NEW t \in Token, Present(r, t)
  PROVE  Inv'
<1> TypeOK /\ PlaceInv
  BY DEF Inv
<1>0. UNCHANGED <<trusted, stable, newest, published, gone, outage, cache, age, issuer,
                  held, flight, forced>>
  BY DEF Present, issuers, caches
<1>1. /\ place' = [place EXCEPT ![r] = "look"] /\ token' = [token EXCEPT ![r] = t]
      /\ place[r] = "idle" /\ t.iss \in Trusted /\ t.key <= newest[t.iss]
      /\ IsLauncher => \A q \in Request : place[q] = "idle"
  BY DEF Present
<1>2. TypeOK'
  <2>1. stable' \in BOOLEAN /\ outage' \in BOOLEAN
    BY <1>0, Zenon DEF TypeOK
  <2>2. /\ place' \in [Request -> {"idle", "look", "fetch", "answered", "verified"}]
        /\ token' \in [Request -> Token]
    BY <1>1 DEF TypeOK
  <2> QED
    BY <1>0, <2>1, <2>2 DEF TypeOK
<1>3. IssuersInv'
  BY <1>0 DEF Inv, IssuersInv
<1>4. PlaceInv'
  BY <1>0, <1>1 DEF PlaceInv, TypeOK, Trusted
<1>5. AgesInv'
  <2>1. \A q \in Request : At(q)' = At(q) /\ (place'[q] = "answered" => place[q] = "answered")
    BY <1>0, <1>1 DEF At, TypeOK
  <2> QED
    BY <1>0, <2>1 DEF Inv, AgesInv
<1>6. LauncherInv'
  <2> SUFFICES ASSUME IsLauncher PROVE LauncherInv'
    BY <1>0 DEF LauncherInv, IsLauncher
  <2>1. \A q \in Request : q # r => place'[q] = "idle"
    BY <1>1 DEF TypeOK
  <2>2. place'[r] = "look" /\ issuer'[r] = 1
    BY <1>0, <1>1 DEF TypeOK, PlaceInv
  <2>3. \A q, u \in Request : Active(q)' /\ Active(u)' => q = u
    BY <2>1 DEF Active
  <2>4. forced' = {}
    BY <1>0 DEF Inv, LauncherInv
  <2> QED
    BY <2>1, <2>2, <2>3, <2>4 DEF LauncherInv
<1>7. StableInv'
  BY <1>0, <1>1 DEF Inv, StableInv, TypeOK
<1> QED
  BY <1>2, <1>3, <1>4, <1>5, <1>6, <1>7 DEF Inv

LEMMA IssuerAnswersStep ==
  ASSUME Inv, NEW r \in Request, IssuerAnswers(r)
  PROVE  Inv'
<1> TypeOK /\ PlaceInv
  BY DEF Inv
<1>0. UNCHANGED <<trusted, stable, newest, published, gone, outage, cache, age, token,
                  issuer, forced>>
  BY DEF IssuerAnswers, issuers, caches
<1>1. /\ place' = [place EXCEPT ![r] = "answered"] /\ place[r] = "fetch"
      /\ held' = [held EXCEPT ![r] = published[At(r)]]
      /\ flight' = [flight EXCEPT ![r] = 0]
  BY DEF IssuerAnswers
<1>at. \A q \in Request : At(q)' = At(q) /\ At(q) \in Issuer
  BY <1>0, Tried DEF At
<1>2. TypeOK'
  <2>1. stable' \in BOOLEAN /\ outage' \in BOOLEAN
    BY <1>0, Zenon DEF TypeOK
  <2>2. /\ place' \in [Request -> {"idle", "look", "fetch", "answered", "verified"}]
        /\ held' \in [Request -> SUBSET Key]
        /\ flight' \in [Request -> 0 .. FetchTime]
    BY <1>1, <1>at, BoundsAssumption DEF TypeOK
  <2> QED
    BY <1>0, <2>1, <2>2 DEF TypeOK
<1>3. IssuersInv'
  BY <1>0 DEF Inv, IssuersInv
<1>4. PlaceInv'
  BY <1>0, <1>1 DEF PlaceInv, TypeOK, Trusted
<1>5. AgesInv'
  <2>1. ASSUME NEW q \in Request, place'[q] = "answered", NEW k \in held'[q]
        PROVE  k \in published[At(q)] \/ gone[At(q)][k] <= flight'[q]
    <3>1. CASE q = r
      BY <2>1, <3>1, <1>1 DEF TypeOK
    <3>2. CASE q # r
      BY <2>1, <3>2, <1>1 DEF TypeOK, Inv, AgesInv
    <3> QED
      BY <3>1, <3>2
  <2> QED
    BY <1>0, <1>at, <2>1 DEF Inv, AgesInv
<1>6. LauncherInv'
  <2> SUFFICES ASSUME IsLauncher PROVE LauncherInv'
    BY <1>0 DEF LauncherInv, IsLauncher
  <2>1. \A q \in Request : Active(q)' => Active(q)
    BY <1>1 DEF Active, TypeOK
  <2>2. \A q \in Request : place'[q] = "fetch" => place[q] = "fetch"
    BY <1>1 DEF TypeOK
  <2>3. \A q \in Request : place'[q] \in {"look", "fetch", "answered"} =>
                           place[q] \in {"look", "fetch", "answered"}
    BY <1>1 DEF TypeOK
  <2> QED
    BY <1>0, <1>at, <2>1, <2>2, <2>3 DEF Inv, LauncherInv, Fresh
<1>7. StableInv'
  <2> SUFFICES ASSUME stable, trusted = <<"approver">> PROVE StableInv'
    BY <1>0 DEF StableInv
  <2>1. At(r) = "approver"
    BY Tried, Verifiers
  <2>2. \A q \in Request : /\ place'[q] = "answered" => held'[q] = {1}
                           /\ place'[q] = "fetch" => held'[q] \in {{}, {1}}
    BY <1>1, <2>1 DEF Inv, StableInv, TypeOK
  <2> QED
    BY <1>0, <2>2 DEF Inv, StableInv
<1> QED
  BY <1>2, <1>3, <1>4, <1>5, <1>6, <1>7 DEF Inv

LEMMA TickStep ==
  ASSUME Inv, Tick
  PROVE  Inv'
<1> TypeOK /\ PlaceInv
  BY DEF Inv
<1>0. UNCHANGED <<trusted, stable, newest, published, outage, cache, token, place,
                  issuer, held, forced>>
  BY DEF Tick
<1>b. Ttl \in Nat /\ FetchTime \in Nat /\ Longest \in Nat /\ Longest = Ttl + FetchTime + 1
  BY BoundsAssumption DEF Longest
<1>1. /\ age' \in [Issuer -> 0 .. Ttl]
      /\ \A i \in Issuer : age'[i] < Ttl => age[i] < Ttl /\ age'[i] = age[i] + 1
  BY <1>b DEF Tick, Older, TypeOK
<1>2. /\ gone' \in [Issuer -> [Key -> 0 .. Longest]]
      /\ \A i \in Issuer, k \in Key :
           /\ gone'[i][k] <= gone[i][k] + 1
           /\ k \in published[i] \/ k > newest[i] => gone'[i][k] = gone[i][k]
  <2>1. ASSUME NEW i \in Issuer, NEW k \in Key
        PROVE  gone[i][k] \in 0 .. Longest /\ k \in Nat /\ newest[i] \in Nat
    <3>1. gone[i] \in [Key -> 0 .. Longest] /\ newest[i] \in Key
      BY DEF TypeOK
    <3>2. Key \subseteq Nat
      BY BoundsAssumption DEF Key
    <3> QED
      BY <3>1, <3>2
  <2> QED
    BY <1>b, <2>1 DEF Tick
<1>3. /\ flight' \in [Request -> 0 .. FetchTime]
      /\ \A r \in Request : place[r] = "answered" => flight'[r] = flight[r] + 1
  <2>1. \A r \in Request : flight[r] \in 0 .. FetchTime
    BY DEF TypeOK
  <2> QED
    BY <1>b, <2>1 DEF Tick
<1>at. \A q \in Request : At(q)' = At(q) /\ At(q) \in Issuer
  BY <1>0, Tried DEF At
<1>4. TypeOK'
  <2>1. stable' \in BOOLEAN /\ outage' \in BOOLEAN
    BY <1>0, Zenon DEF TypeOK
  <2> QED
    BY <1>0, <1>1, <1>2, <1>3, <2>1 DEF TypeOK
<1>5. IssuersInv'
  BY <1>0, <1>2 DEF Inv, IssuersInv
<1>6. PlaceInv'
  BY <1>0 DEF PlaceInv, Trusted
<1>7. AgesInv'
  <2>1. ASSUME NEW i \in Issuer, age'[i] < Ttl, NEW k \in cache[i]
        PROVE  k \in published[i] \/ gone'[i][k] <= age'[i] + FetchTime
    <3>1. k \in Key /\ age[i] \in Nat /\ gone[i][k] \in Nat /\ gone'[i][k] \in Nat
      BY <1>b, <1>2 DEF TypeOK
    <3>2. k \in published[i] \/ gone[i][k] <= age[i] + FetchTime
      BY <1>1, <2>1 DEF Inv, AgesInv
    <3> QED
      BY <1>b, <1>1, <1>2, <2>1, <3>1, <3>2
  <2>2. ASSUME NEW r \in Request, place[r] = "answered", NEW k \in held[r]
        PROVE  k \in published[At(r)] \/ gone'[At(r)][k] <= flight'[r]
    <3>1. k \in Key /\ At(r) \in Issuer
      BY <1>at DEF TypeOK
    <3>2. flight[r] \in Nat /\ gone[At(r)][k] \in Nat /\ gone'[At(r)][k] \in Nat
      BY <1>b, <1>2, <3>1 DEF TypeOK
    <3>3. k \in published[At(r)] \/ gone[At(r)][k] <= flight[r]
      BY <2>2 DEF Inv, AgesInv
    <3> QED
      BY <1>2, <1>3, <2>2, <3>1, <3>2, <3>3
  <2> QED
    BY <1>0, <1>at, <2>1, <2>2 DEF AgesInv
<1>8. LauncherInv'
  <2>1. \A i \in Issuer : Fresh(i)' => Fresh(i)
    BY <1>0, <1>1 DEF Fresh
  <2> QED
    BY <1>0, <1>at, <2>1 DEF Inv, LauncherInv, IsLauncher, Active, Issuer
<1>9. StableInv'
  BY <1>0 DEF Inv, StableInv
<1> QED
  BY <1>4, <1>5, <1>6, <1>7, <1>8, <1>9 DEF Inv

\* The set that arrives replaces the one that is cached.
LEMMA InstallStep ==
  ASSUME Inv, NEW r \in Request, Install(r)
  PROVE  /\ Inv' /\ Turned(r)
         /\ At(r) \in Issuer /\ cache'[At(r)] = held[r]
<1> TypeOK /\ PlaceInv
  BY DEF Inv
<1>0. UNCHANGED <<trusted, stable, newest, published, gone, outage>>
  BY DEF Install, issuers
<1>1. /\ place[r] = "answered" /\ Judge(r, held[r])
      /\ cache' = [cache EXCEPT ![At(r)] = held[r]]
      /\ age' = [age EXCEPT ![At(r)] = 0]
      /\ held' = [held EXCEPT ![r] = {}]
      /\ flight' = [flight EXCEPT ![r] = 0]
  BY DEF Install
<1>2. Turned(r) /\ place'[r] # "fetch"
      /\ (place'[r] = "look" => ~Verifies(token[r], At(r), held[r]))
  BY <1>1, JudgeTurns
<1>3. At(r) \in Issuer
  BY Tried
<1>4. cache'[At(r)] = held[r] /\ age'[At(r)] = 0
  BY <1>1, <1>3 DEF TypeOK
<1>5. \A i \in Issuer : i # At(r) => cache'[i] = cache[i] /\ age'[i] = age[i]
  BY <1>1 DEF TypeOK
<1>6. \A q \in Request : q # r => held'[q] = held[q] /\ flight'[q] = flight[q]
  BY <1>1 DEF TypeOK
<1>7. TypeOK'
  <2>1. outage' \in BOOLEAN
    BY <1>0, Zenon DEF TypeOK
  <2>2. /\ cache' \in [Issuer -> SUBSET Key] /\ age' \in [Issuer -> 0 .. Ttl]
        /\ held' \in [Request -> SUBSET Key] /\ flight' \in [Request -> 0 .. FetchTime]
    BY <1>1, <1>3, BoundsAssumption DEF TypeOK
  <2> QED
    BY <1>0, <1>2, <2>1, <2>2, TurnedType DEF issuers
<1>8. IssuersInv'
  BY <1>0 DEF Inv, IssuersInv
<1>9. /\ PlaceInv' /\ \A q \in Request : place'[q] # "idle" => place[q] # "idle"
      /\ \A q \in Request : place'[q] = "answered" =>
           q # r /\ place[q] = "answered" /\ At(q)' = At(q)
  BY <1>0, <1>1, <1>2, TurnedRequests
<1>10. AgesInv'
  <2>1. ASSUME NEW i \in Issuer, age'[i] < Ttl, NEW k \in cache'[i]
        PROVE  k \in published[i] \/ gone[i][k] <= age'[i] + FetchTime
    <3>1. CASE i = At(r)
      <4>1. k \in published[i] \/ gone[i][k] <= flight[r]
        BY <1>1, <1>4, <2>1, <3>1 DEF Inv, AgesInv
      <4>2. k \in Key /\ flight[r] \in 0 .. FetchTime /\ age'[i] = 0
        BY <1>4, <2>1, <3>1 DEF TypeOK
      <4>3. gone[i][k] \in Nat
        BY <4>2, BoundsAssumption DEF TypeOK, Longest
      <4> QED
        BY <4>1, <4>2, <4>3, BoundsAssumption
    <3>2. CASE i # At(r)
      BY <1>5, <2>1, <3>2 DEF Inv, AgesInv
    <3> QED
      BY <3>1, <3>2
  <2>2. \A q \in Request : place'[q] = "answered" =>
          \A k \in held'[q] : k \in published[At(q)'] \/ gone[At(q)'][k] <= flight'[q]
    BY <1>6, <1>9 DEF Inv, AgesInv
  <2> QED
    BY <1>0, <2>1, <2>2 DEF AgesInv
<1>11. LauncherInv'
  <2> SUFFICES ASSUME IsLauncher PROVE LauncherInv'
    BY <1>0 DEF LauncherInv, IsLauncher
  <2>0. forced' = {}
    BY <1>2 DEF Inv, LauncherInv, Turned
  <2>1. \A q, t \in Request : Active(q)' /\ Active(t)' => q = t
    BY <1>9 DEF Inv, LauncherInv, Active
  <2>2. \A q \in Request : q # r => place'[q] = "idle"
    BY <1>1, <1>2 DEF Inv, LauncherInv, Active, Turned
  <2>3. place'[r] # "fetch" /\ place'[r] # "answered"
    BY <1>2 DEF Turned
  <2>4. place'[r] = "look" /\ token'[r].iss = "rhdh" => token'[r].key \notin cache'["rhdh"]
    <3> SUFFICES ASSUME place'[r] = "look", token[r].iss = "rhdh"
                 PROVE  token[r].key \notin cache'["rhdh"]
      BY <1>2 DEF Turned
    <3>1. issuer[r] < Len(trusted) /\ Len(trusted) = 2
      BY <1>2, Verifiers DEF Turned
    <3>2. At(r) = "rhdh"
      BY <3>1, Tried
    <3> QED
      BY <1>2, <1>4, <3>2 DEF Verifies
  <2> QED
    BY <2>0, <2>1, <2>2, <2>3, <2>4 DEF LauncherInv
<1>12. StableInv'
  <2> SUFFICES ASSUME stable, trusted = <<"approver">> PROVE StableInv'
    BY <1>0 DEF StableInv
  <2>1. At(r) = "approver"
    BY Tried, Verifiers
  <2>2. cache'["approver"] = {1}
    BY <1>1, <1>4, <2>1 DEF Inv, StableInv
  <2>3. \A q \in Request : place'[q] = "answered" => held'[q] = {1}
    BY <1>6, <1>9 DEF Inv, StableInv
  <2>4. \A q \in Request : place'[q] = "fetch" => held'[q] \in {{}, {1}}
    BY <1>2, <1>6 DEF Inv, StableInv, Turned
  <2> QED
    BY <1>0, <2>2, <2>3, <2>4 DEF Inv, StableInv
<1> QED
  BY <1>2, <1>3, <1>4, <1>7, <1>8, <1>9, <1>10, <1>11, <1>12 DEF Inv

------------------------------------------------------------------------------

LEMMA NextInv == Inv /\ [Next]_vars => Inv'
<1> SUFFICES ASSUME Inv, [Next]_vars PROVE Inv'
  OBVIOUS
<1>1. ASSUME NEW r \in Request, Verify(r) PROVE Inv'
  BY <1>1, LookStep, IssuerAnswersStep, InstallStep, FetchFailsStep, IdentifyStep DEF Verify
<1>2. CASE \E r \in Request, t \in Token : Present(r, t)
  BY <1>2, PresentStep
<1>3. CASE RestartApprover \/ \E i \in Issuer : Rotate(i) \/ \E k \in Key : Withdraw(i, k)
  BY <1>3, IssuersChange, IssuersStep
<1>4. CASE Tick
  BY <1>4, TickStep
<1>5. CASE UNCHANGED vars
  <2>1. UNCHANGED <<trusted, newest, published, gone, cache, age, token, place,
                    issuer, held, flight, forced>>
    BY <1>5 DEF vars, issuers, caches, requests
  <2>2. stable' \in BOOLEAN /\ outage' \in BOOLEAN /\ stable' = stable
    BY <1>5, Zenon DEF vars, Inv, TypeOK
  <2>3. TypeOK'
    BY <2>1, <2>2 DEF Inv, TypeOK
  <2>4. IssuersInv' /\ PlaceInv'
    BY <2>1 DEF Inv, IssuersInv, PlaceInv, Trusted
  <2>5. AgesInv'
    BY <2>1 DEF Inv, AgesInv, At
  <2>6. LauncherInv'
    BY <2>1 DEF Inv, LauncherInv, IsLauncher, Active, Fresh, At
  <2>7. StableInv'
    BY <2>1, <2>2 DEF Inv, StableInv
  <2> QED
    BY <2>3, <2>4, <2>5, <2>6, <2>7 DEF Inv
<1> QED
  BY <1>1, <1>2, <1>3, <1>4, <1>5 DEF Next

\* The inductive invariant: keys that are gone for long are in no set that is used, and
\* the launcher asks its second issuer only for tokens that the first does not verify.
THEOREM InvCorrect == Spec => []Inv
BY InitInv, NextInv, PTL DEF Spec

\* The state of the issuers, the caches and the requests stays within its types.
THEOREM TypeCorrect == Spec => []TypeOK
<1>1. Inv => TypeOK
  BY DEF Inv
<1> QED
  BY <1>1, InvCorrect, PTL

------------------------------------------------------------------------------

\* Whose step it is that moves a request on.
LEMMA WhoMoves ==
  ASSUME Inv, [Next]_vars, NEW r \in Request, place[r] # "idle", place'[r] # place[r],
         place'[r] \in {"idle", "verified"}
  PROVE  Look(r) \/ Install(r) \/ FetchFails(r) \/ Identify(r)
<1> TypeOK
  BY DEF Inv
<1>1. ASSUME NEW q \in Request, Verify(q)
      PROVE  Look(r) \/ Install(r) \/ FetchFails(r) \/ Identify(r)
  <2>1. CASE IssuerAnswers(q)
    <3>1. place'[r] = place[r] \/ place'[r] = "answered"
      BY <2>1 DEF IssuerAnswers, TypeOK
    <3> QED
      BY <3>1
  <2>2. CASE Look(q) \/ Install(q) \/ FetchFails(q) \/ Identify(q)
    <3>1. Turned(q)
      BY <2>2, LookStep, InstallStep, FetchFailsStep, IdentifyStep
    <3>2. q = r
      BY <3>1 DEF Turned
    <3> QED
      BY <2>2, <3>2
  <2> QED
    BY <1>1, <2>1, <2>2 DEF Verify
<1>2. CASE \E q \in Request, t \in Token : Present(q, t)
  <2>1. place'[r] = place[r] \/ place'[r] = "look"
    BY <1>2 DEF Present, TypeOK
  <2> QED
    BY <2>1
<1>3. CASE RestartApprover \/ \E i \in Issuer : Rotate(i) \/ \E k \in Key : Withdraw(i, k)
  BY <1>3 DEF RestartApprover, Rotate, Withdraw, requests
<1>4. CASE Tick \/ UNCHANGED vars
  BY <1>4 DEF Tick, vars, requests
<1> QED
  BY <1>1, <1>2, <1>3, <1>4 DEF Next

\* A key of a set that is used was published less than a TTL and a fetch ago.
LEMMA RecentKeys ==
  ASSUME Inv, NEW r \in Request, place[r] # "idle", NEW keys,
         Verifies(token[r], At(r), keys),
         \/ Fresh(At(r)) /\ keys = cache[At(r)]
         \/ place[r] = "answered" /\ keys = held[r]
  PROVE  ~Withdrawn(token[r])
<1> TypeOK /\ PlaceInv
  BY DEF Inv
<1> DEFINE k == token[r].key
           i == At(r)
<1>1. i \in Issuer /\ k \in Key /\ token[r].iss = i /\ k \in keys
  BY Tried DEF TypeOK, Token, Verifies
<1>2. gone[i][k] \in Nat
  BY <1>1, BoundsAssumption DEF TypeOK, Longest
<1>3. CASE Fresh(i) /\ keys = cache[i]
  <2>1. age[i] \in Nat /\ age[i] < Ttl
    BY <1>1, <1>3 DEF TypeOK, Fresh
  <2>2. k \in published[i] \/ gone[i][k] <= age[i] + FetchTime
    BY <1>1, <1>3, <2>1 DEF Inv, AgesInv
  <2> QED
    BY <1>1, <1>2, <2>1, <2>2, BoundsAssumption DEF Withdrawn
<1>4. CASE place[r] = "answered" /\ keys = held[r]
  <2>1. flight[r] \in 0 .. FetchTime
    BY DEF TypeOK
  <2>2. k \in published[i] \/ gone[i][k] <= flight[r]
    BY <1>1, <1>4 DEF Inv, AgesInv
  <2> QED
    BY <1>1, <1>2, <2>1, <2>2, BoundsAssumption DEF Withdrawn
<1> QED
  BY <1>3, <1>4

\* auth.py:55, jwks.go:282 - a key that its issuer took back is trusted no longer than
\* the TTL and one fetch, unless ext-proc cannot fetch the set.
THEOREM TrustExpiresCorrect == Spec => TrustExpires
<1>1. ASSUME Inv, [Next]_vars, NEW r \in Request, place[r] # "verified", place'[r] = "verified"
      PROVE  token[r].live /\ (IsLauncher \/ ~outage' => ~Withdrawn(token[r]))
  <2> TypeOK
    BY <1>1 DEF Inv
  <2>0. place[r] # "idle"
    <3>1. SUFFICES ASSUME place[r] = "idle" PROVE FALSE
      OBVIOUS
    <3>2. ASSUME NEW q \in Request, Look(q) \/ Install(q) \/ FetchFails(q) \/ Identify(q)
          PROVE  FALSE
      <4>1. Turned(q) /\ place[q] # "idle"
        BY <1>1, <3>2, LookStep, InstallStep, FetchFailsStep, IdentifyStep
           DEF Look, Install, FetchFails, Identify
      <4> QED
        BY <1>1, <3>1, <4>1 DEF Turned
    <3>3. ASSUME NEW q \in Request, IssuerAnswers(q) \/ \E t \in Token : Present(q, t)
          PROVE  FALSE
      BY <1>1, <3>3 DEF IssuerAnswers, Present, TypeOK
    <3>4. CASE RestartApprover \/ \E i \in Issuer : Rotate(i) \/ \E k \in Key : Withdraw(i, k)
      BY <1>1, <3>1, <3>4 DEF RestartApprover, Rotate, Withdraw, requests
    <3>5. CASE Tick \/ UNCHANGED vars
      BY <1>1, <3>1, <3>5 DEF Tick, vars, requests
    <3> QED
      BY <1>1, <3>2, <3>3, <3>4, <3>5 DEF Next, Verify
  <2>1. CASE Look(r)
    <3>1. Fresh(At(r)) /\ Judge(r, cache[At(r)])
      BY <1>1, <2>1, MoveTurns DEF Look
    <3>2. Verifies(token[r], At(r), cache[At(r)]) /\ token[r].live
      BY <1>1, <3>1, JudgeTurns
    <3> QED
      BY <1>1, <2>0, <3>1, <3>2, RecentKeys
  <2>2. CASE Install(r)
    <3>1. Judge(r, held[r]) /\ place[r] = "answered"
      BY <2>2 DEF Install
    <3>2. Verifies(token[r], At(r), held[r]) /\ token[r].live
      BY <1>1, <3>1, JudgeTurns
    <3> QED
      BY <1>1, <2>0, <3>1, <3>2, RecentKeys
  <2>3. CASE FetchFails(r)
    <3>1. ~IsLauncher /\ Judge(r, held[r])
      BY <1>1, <2>3, NextIssuerTurns, LeaveTurns DEF FetchFails
    <3>2. token[r].live
      BY <1>1, <3>1, JudgeTurns
    <3>3. ~(IsLauncher \/ ~outage')
      BY <2>3, <3>1 DEF FetchFails
    <3> QED
      BY <3>2, <3>3
  <2>4. ~Identify(r)
    BY <1>1 DEF Identify
  <2> QED
    BY <1>1, <2>0, <2>1, <2>2, <2>3, <2>4, WhoMoves
<1>2. Inv /\ [Next]_vars =>
        [\A r \in Request : place[r] # "verified" /\ place'[r] = "verified" =>
           token[r].live /\ (IsLauncher \/ ~outage' => ~Withdrawn(token[r]))]_vars
  BY <1>1
<1> QED
  BY <1>2, InvCorrect, PTL DEF Spec, TrustExpires

\* A token that was tried with its verifier's last issuer.
LEMMA LastTried ==
  ASSUME Inv, NEW r \in Request, place[r] \in {"look", "fetch", "answered"},
         token[r].live, issuer[r] = Len(trusted)
  PROVE  LET t == token[r] IN
         At(r) = t.iss \/ ~(Fresh(t.iss) /\ t.key \in cache[t.iss])
<1> TypeOK /\ PlaceInv
  BY DEF Inv
<1>1. token[r].iss \in Trusted
  BY DEF PlaceInv
<1>2. CASE IsLauncher
  <2>1. issuer[r] = 2 /\ At(r) = "keycloak" /\ token[r].iss \in {"rhdh", "keycloak"}
    BY <1>1, <1>2, Verifiers, Tried
  <2> QED
    BY <1>2, <2>1 DEF Inv, LauncherInv
<1>3. CASE ~IsLauncher
  BY <1>1, <1>3, Verifiers, Tried
<1> QED
  BY <1>2, <1>3

\* What jit-approver's mounted key is good for.
LEMMA MountedKey ==
  ASSUME Inv, NEW r \in Request, place[r] # "idle", stable, At(r) = "approver"
  PROVE  /\ Verifies(token[r], At(r), {1})
         /\ cache["approver"] \in {{}, {1}}
         /\ place[r] = "answered" => held[r] = {1}
         /\ place[r] = "fetch" => held[r] \in {{}, {1}}
<1> TypeOK /\ PlaceInv
  BY DEF Inv
<1>1. trusted = <<"approver">> /\ token[r].iss = "approver"
  BY Tried, Verifiers DEF PlaceInv
<1>2. token[r].key <= 1 /\ token[r].key \in Key
  BY <1>1 DEF Inv, PlaceInv, StableInv, TypeOK, Token
<1>3. token[r].key = 1
  BY <1>2 DEF Key
<1> QED
  BY <1>1, <1>3 DEF Inv, StableInv, Verifies

\* auth.py:208, jwks.go:290 and signing.py:28 - a live token is turned down only for want
\* of its own issuer's keys, at ext-proc also of those it had before a fetch that failed;
\* with a mounted key a session token outlives the approver's restarts.
THEOREM DeniedForCauseCorrect == Spec => DeniedForCause
<1> DEFINE Cause(r) ==
      LET t == token[r] IN
      /\ IF At(r) # t.iss       THEN ~(Fresh(t.iss) /\ t.key \in cache[t.iss])
         ELSE IF place[r] = "fetch" THEN IsLauncher \/ t.key \notin held[r]
         ELSE t.key \notin cache'[t.iss]
      /\ stable /\ At(r) = "approver" => place[r] = "fetch" /\ held[r] = {}
<1>1. ASSUME Inv, [Next]_vars, NEW r \in Request, Denied(r), token[r].live
      PROVE  Cause(r)
  <2> TypeOK /\ PlaceInv
    BY <1>1 DEF Inv
  <2>0. place[r] \in {"look", "fetch", "answered"} /\ place'[r] = "idle"
        /\ place[r] # "idle" /\ place[r] # place'[r]
    BY <1>1 DEF Denied
  <2>1. CASE Look(r)
    <3>1. Fresh(At(r)) /\ Judge(r, cache[At(r)]) /\ cache' = cache /\ place[r] # "fetch"
      BY <2>0, <2>1, MoveTurns DEF Look, caches
    <3>2. ~Verifies(token[r], At(r), cache[At(r)]) /\ issuer[r] = Len(trusted)
      BY <1>1, <2>0, <3>1, JudgeTurns
    <3>3. ~(stable /\ At(r) = "approver")
      BY <1>1, <2>0, <3>1, <3>2, MountedKey DEF Fresh
    <3> QED
      BY <1>1, <2>0, <3>1, <3>2, <3>3, LastTried DEF Verifies
  <2>2. CASE Install(r)
    <3>1. Judge(r, held[r]) /\ place[r] = "answered"
      BY <2>2 DEF Install
    <3>2. ~Verifies(token[r], At(r), held[r]) /\ issuer[r] = Len(trusted)
      BY <1>1, <2>0, <3>1, JudgeTurns
    <3>3. ~(stable /\ At(r) = "approver")
      BY <1>1, <2>0, <3>1, <3>2, MountedKey
    <3>4. cache'[At(r)] = held[r]
      BY <1>1, <2>2, InstallStep
    <3> QED
      BY <1>1, <2>0, <3>1, <3>2, <3>3, <3>4, LastTried DEF Verifies
  <2>3. CASE FetchFails(r)
    <3>1. place[r] = "fetch"
      BY <2>3 DEF FetchFails
    <3>2. issuer[r] = Len(trusted)
      <4>1. CASE IsLauncher
        <5>1. NextIssuer(r)
          BY <2>3, <4>1 DEF FetchFails
        <5> QED
          BY <2>0, <5>1, NextIssuerTurns
      <4>2. CASE ~IsLauncher
        BY <4>2, Tried, Verifiers
      <4> QED
        BY <4>1, <4>2
    <3>3. \/ IsLauncher
          \/ held[r] = {}
          \/ ~Verifies(token[r], At(r), held[r])
      <4>1. CASE Judge(r, held[r])
        BY <1>1, <2>0, <4>1, JudgeTurns
      <4> QED
        BY <2>3, <4>1 DEF FetchFails
    <3>4. ASSUME stable, At(r) = "approver" PROVE held[r] = {}
      <4>1. ~IsLauncher
        BY <3>4, Tried
      <4>2. Verifies(token[r], At(r), {1}) /\ held[r] \in {{}, {1}}
        BY <1>1, <2>0, <3>1, <3>4, MountedKey
      <4> QED
        BY <3>3, <4>1, <4>2
    <3>5. \/ At(r) = token[r].iss
          \/ ~(Fresh(token[r].iss) /\ token[r].key \in cache[token[r].iss])
      BY <1>1, <2>0, <3>2, LastTried
    <3>6. At(r) = token[r].iss => IsLauncher \/ token[r].key \notin held[r]
      BY <3>3 DEF Verifies
    <3> QED
      BY <3>1, <3>4, <3>5, <3>6
  <2>4. ~Identify(r)
    BY <2>0 DEF Identify
  <2> QED
    BY <1>1, <2>0, <2>1, <2>2, <2>3, <2>4, WhoMoves
<1>2. Inv /\ [Next]_vars => [\A r \in Request : Denied(r) /\ token[r].live => Cause(r)]_vars
  BY <1>1
<1> QED
  BY <1>2, InvCorrect, PTL DEF Spec, DeniedForCause
=============================================================================
