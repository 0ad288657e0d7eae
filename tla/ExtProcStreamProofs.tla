-------------------------- MODULE ExtProcStreamProofs --------------------------
(***************************************************************************)
(* What holds of the external processor for any number of streams, any       *)
(* calls and grants, and however the world moves while a stream waits.       *)
(***************************************************************************)
EXTENDS ExtProcStream, TLAPS

Working(c) == pc[c] \notin {"idle", "message"}

\* Where a stream is says what it knows.
Place(c) ==
  /\ pc[c] = "idle" <=> call[c] = None
  /\ pc[c] # "idle" =>
       /\ Working(c) => "body" \in call[c].got
       /\ call[c].caller = "sandbox" => call[c].req.svid \in Sandbox
       /\ call[c].caller = "user" => call[c].req.user \in User
       /\ call[c].exchange \in {"call", "success"} => call[c].caller # "nobody"
  /\ pc[c] \in {"grant", "exchange", "token"} => call[c].caller = "sandbox"
  /\ pc[c] \in {"legs", "static"} => call[c].caller # "sandbox"
  /\ pc[c] = "static" => call[c].exchange = "success"
  /\ pc[c] = "token" =>
       call[c].exchange # "call" /\ call[c].what \in {"read", "write"}
  /\ ~Working(c) => vt[c] = "none"
  /\ pc[c] \in {"exchange", "token"} => call[c].doc \in Grant
  /\ pc[c] = "jit" /\ call[c].caller = "sandbox" => call[c].doc \in Grant

PlaceInv == \A c \in Stream : Place(c)

\* A credential goes out once, after the body, and a denied stream is over.
Outcome(c) ==
  /\ injected[c] # None =>
       /\ ~Working(c)
       /\ call[c] # None => "body" \in call[c].got /\ call[c].exchange # "call"
  /\ audit[c] # None /\ audit[c].decision = "deny" => pc[c] = "idle"

\* FailClosed, of one stream.
Closed(c) ==
  /\ passed[c] => injected[c] # None
  /\ audit[c] # None /\ audit[c].decision = "deny" => injected[c] = None

OutcomeInv == \A c \in Stream : Outcome(c)

\* What was read from the world since the body came is still what justifies the
\* credential, or the world no longer matters.
Consented(c) ==
  call[c] # None /\ call[c].caller = "sandbox" =>
    /\ Working(c) => /\ Consent(call[c].req, grant) \subseteq call[c].consents
                     /\ valid \subseteq call[c].jwts
    /\ \/ pc[c] = "grant" /\ vt[c] = "done" /\ GrantBinds(c)
       \/ pc[c] \in {"jit", "exchange", "token"}
       => <<call[c].doc.user, call[c].doc.scope>> \in call[c].consents
    /\ pc[c] \in {"exchange", "token"} =>
         IF call[c].elevated
         THEN call[c].req.jit \in call[c].jwts /\ Covers(call[c].req.jit, call[c].req)
         ELSE Baseline(call[c].doc.scope, call[c].req.tool)
    /\ pc[c] = "token" => call[c].what = StaticSecret(c)

\* InjectedByConsent, of one stream.
Justified(c) ==
  Carries(c) /\ call[c].caller = "sandbox" =>
    \E k \in call[c].consents :
      /\ injected[c].user = k[1]
      /\ \/ Baseline(k[2], call[c].req.tool) /\ injected[c].kind # "write"
         \/ call[c].req.jit \in call[c].jwts /\ Covers(call[c].req.jit, call[c].req)

ConsentInv == \A c \in Stream : Consented(c)

Inv == /\ TypeOK /\ PlaceInv
       /\ OutcomeInv /\ FailClosed
       /\ ConsentInv /\ InjectedByConsent

-----------------------------------------------------------------------------
(* Types.                                                                    *)

\* Age takes no grant out of the grants.
LEMMA OlderType ==
  ASSUME NEW g \in Grant \union {None}
  PROVE  Older(g) \in Grant \union {None}
  BY WorldAssumption, SMT DEF Older, Grant

\* A consent is a user's, for a scope.
LEMMA ConsentType ==
  ASSUME NEW r \in Requests, NEW g \in [Sandbox -> Grant \union {None}]
  PROVE  Consent(r, g) \subseteq User \X Scopes
  BY SMT DEF Consent, Grant

\* The updates that the steps make to a stream's locals.
LEMMA Updates ==
  ASSUME NEW k \in Call, NEW b \in BOOLEAN, NEW d \in Grant \union {None},
         NEW x \in {"none", "call", "success", "failed"},
         NEW w \in {"none", "grant", "tool", "_default", "read", "write"}
  PROVE  /\ [k EXCEPT !.exchange = x] \in Call \ {None}
         /\ [k EXCEPT !.what = w] \in Call \ {None}
         /\ [k EXCEPT !.doc = d] \in Call \ {None}
         /\ [k EXCEPT !.exchange = x, !.what = w] \in Call \ {None}
         /\ [k EXCEPT !.elevated = b, !.exchange = x] \in Call \ {None}
<1>1. [k EXCEPT !.exchange = x] \in Call
  BY Zenon DEF Call
<1>2. [k EXCEPT !.what = w] \in Call
  BY Zenon DEF Call
<1>3. [k EXCEPT !.doc = d] \in Call
  BY Zenon DEF Call
<1>4. [k EXCEPT !.exchange = x, !.what = w] \in Call
  BY Zenon DEF Call
<1>5. [k EXCEPT !.elevated = b, !.exchange = x] \in Call
  BY Zenon DEF Call
<1> QED
  BY <1>1, <1>2, <1>3, <1>4, <1>5, NoneAssumption

\* A credential of a user is one.
LEMMA InjectType ==
  ASSUME TypeOK, NEW c \in Stream, NEW u \in User,
         NEW k \in {"jwt", "read", "write"}, Inject(c, k, u)
  PROVE  injected' \in [Stream -> Credential \union {None}]
  BY SMT DEF TypeOK, Inject, Credential

\* The gateway's messages keep the types.
LEMMA GatewayTypes ==
  ASSUME TypeOK, PlaceInv, OutcomeInv, NEW c \in Stream, Gateway(c)
  PROVE  TypeOK'
<1> USE WorldAssumption, NoneAssumption DEF TypeOK, PlaceInv, Place, Working, Waits
<1>1. ASSUME NEW r \in Requests, Open(c, r) PROVE TypeOK'
  BY <1>1, SMT DEF Open, Goto, client, world, Call
<1>2. CASE Close(c)
  BY <1>2, SMT DEF Close, Goto, Return, Rest, client, world
<1>3. CASE Headers(c)
  <2> DEFINE k == [call[c] EXCEPT !.got = {"headers"},
                     !.caller = IF call[c].req.svid # None THEN "sandbox" ELSE "user"]
  <2>1. call[c] \in Call
    BY <1>3, SMT DEF Headers
  <2>2. k \in Call
    BY <2>1, Zenon DEF Call
  <2>3. call' = [call EXCEPT ![c] = k]
    BY <1>3, SMT DEF Headers
  <2> QED
    BY <1>3, <2>2, <2>3, SMT DEF Headers, client, world
<1>4. CASE HeadersRefused(c)
  BY <1>4, SMT DEF HeadersRefused, Deny, Return, Rest, Goto, Entry, client, world
<1>5. CASE Body(c)
  <2>1. Consent(call[c].req, grant) \subseteq User \X Scopes
    BY <1>5, ConsentType DEF Body, Call
  <2> DEFINE k == [call[c] EXCEPT !.got = call[c].got \union {"body"}, !.what = "grant",
                     !.consents = Consent(call[c].req, grant), !.jwts = valid]
  <2>2. call[c] \in Call
    BY <1>5, SMT DEF Body
  <2>3. k \in Call
    BY <2>1, <2>2, WorldAssumption, Zenon DEF Call, TypeOK
  <2>4. call' = [call EXCEPT ![c] = k]
    BY <1>5, Zenon DEF Body
  <2> QED
    BY <1>5, <2>3, <2>4, SMT DEF Body, Goto, AskVault, client, world
<1>6. CASE BodyRefused(c)
  BY <1>6, SMT DEF BodyRefused, Deny, Return, Rest, Goto, Entry, client, world
<1>7. CASE Response(c)
  <2>1. call[c] \in Call /\ call[c].req.user \in User \union {None}
    BY <1>7, SMT DEF Response, Call, Request
  <2>2. GrantUser(c) \in User \union {None}
    BY <2>1, SMT DEF GrantUser, Call, Grant
  <2>3. Allowed(c) \in Entry
    <3>1. /\ call[c].elevated \in BOOLEAN /\ WriteIdentity(c) \in BOOLEAN
          /\ ExchangeResult(c) \in {"none", "success", "failed"}
      BY <1>7, <2>1, SMT DEF Call, WriteIdentity, ExchangeResult, Response,
         Delegated, OutcomeInv, Outcome
    <3>2. CASE call[c].caller = "sandbox"
      BY <2>2, <3>1, <3>2, Zenon DEF Allowed, Entry
    <3>3. CASE call[c].caller # "sandbox"
      BY <2>1, <3>3, Zenon DEF Allowed, Entry
    <3> QED
      BY <3>2, <3>3
  <2>4. [call[c] EXCEPT !.got = @ \union {"response"}] \in Call
    BY <2>1, SMT DEF Call
  <2> QED
    BY <1>7, <2>3, <2>4, SMT DEF Response, client, world
<1>8. CASE ResponseRefused(c)
  BY <1>8, SMT DEF ResponseRefused, Deny, Return, Rest, Goto, Entry, client, world
<1> QED
  BY <1>1, <1>2, <1>3, <1>4, <1>5, <1>6, <1>7, <1>8 DEF Gateway

\* So do the steps of the Vault client.
LEMMA VaultTypes ==
  ASSUME TypeOK, PlaceInv, NEW c \in Stream, Vault(c)
  PROVE  TypeOK'
<1> USE WorldAssumption, NoneAssumption DEF TypeOK, Step, client, world, PlaceInv, Place
<1>1. CASE LoggedIn(c)
  BY <1>1, SMT DEF LoggedIn
<1>2. CASE LoginBegins(c)
  BY <1>2, SMT DEF LoginBegins
<1>3. CASE LoginAnswered(c)
  BY <1>3, SMT DEF LoginAnswered, CachedFor
<1>4. CASE LoginFailed(c)
  BY <1>4, SMT DEF LoginFailed, AfterFailedLogin
<1>5. CASE TokenRead(c)
  BY <1>5, SMT DEF TokenRead
<1>6. CASE Fetched(c)
  <2>1. call[c] \in Call /\ (pc[c] = "grant" => call[c].req.svid \in Sandbox)
    BY <1>6, SMT DEF Fetched, Working, Waits
  <2> DEFINE d == IF pc[c] = "grant" THEN grant[call[c].req.svid] ELSE call[c].doc
  <2>2. d \in Grant \union {None}
    BY <2>1, SMT DEF Call
  <2>3. [call[c] EXCEPT !.doc = d] \in Call
    BY <2>1, <2>2, Updates
  <2> QED
    BY <1>6, <2>3, SMT DEF Fetched
<1>7. CASE FetchFailed(c)
  BY <1>7, SMT DEF FetchFailed
<1> QED
  BY <1>1, <1>2, <1>3, <1>4, <1>5, <1>6, <1>7 DEF Vault

\* So does what the stream decides.
LEMMA ProcessTypes ==
  ASSUME TypeOK, PlaceInv, NEW c \in Stream, Process(c)
  PROVE  TypeOK'
<1> USE WorldAssumption, NoneAssumption
    DEF TypeOK, PlaceInv, Place, Working, Waits, Deny, Return, Rest, Goto, Entry, client, world
<1>1. CASE GrantFailed(c)
  BY <1>1, SMT DEF GrantFailed
<1>2. CASE GrantRefused(c)
  BY <1>2, SMT DEF GrantRefused
<1>3. CASE GrantAccepted(c)
  BY <1>3, SMT DEF GrantAccepted
<1>4. CASE SandboxPermitted(c)
  <2>1. call[c] \in Call
    BY <1>4, SMT DEF SandboxPermitted
  <2>2. PICK js \in Verifiable(c) :
          call' = [call EXCEPT ![c] = [call[c] EXCEPT
                     !.elevated = Elevated(c, js), !.exchange = "call"]]
    BY <1>4 DEF SandboxPermitted
  <2>3. Elevated(c, js) \in BOOLEAN
    BY DEF Elevated
  <2>4. [call[c] EXCEPT !.elevated = Elevated(c, js), !.exchange = "call"] \in Call
    BY <2>1, <2>3, Updates
  <2> QED
    BY <1>4, <2>2, <2>4, SMT DEF SandboxPermitted
<1>5. CASE SandboxDenied(c)
  BY <1>5, SMT DEF SandboxDenied
<1>6. CASE Impersonated(c)
  <2>1. call[c] \in Call /\ call[c].doc \in Grant /\ call[c].doc.user \in User
    BY <1>6, SMT DEF Impersonated, Grant
  <2>2. StaticSecret(c) \in {"read", "write"}
    BY DEF StaticSecret
  <2>3. /\ [call[c] EXCEPT !.exchange = "success", !.what = StaticSecret(c)] \in Call
        /\ [call[c] EXCEPT !.exchange = "success"] \in Call
    BY <2>1, <2>2, Updates
  <2>4. CASE ToStatic(c, "success")
    BY <1>6, <2>3, <2>4, SMT DEF Impersonated, ToStatic, AskVault
  <2>5. CASE ~call[c].req.static
    <3>1. Inject(c, "jwt", call[c].doc.user)
      BY <1>6, <2>5 DEF Impersonated, ToStatic
    <3>2. injected' \in [Stream -> Credential \union {None}]
      BY <2>1, <3>1, InjectType
    <3> QED
      BY <1>6, <2>3, <2>5, <3>1, <3>2, SMT DEF Impersonated, Inject, ToStatic
  <2> QED
    BY <1>6, <2>4, <2>5 DEF Impersonated
<1>7. CASE ImpersonatedPrivileged(c)
  BY <1>7, SMT DEF ImpersonatedPrivileged
<1>8. CASE NotImpersonated(c)
  <2>1. call[c] \in Call
    BY <1>8, SMT DEF NotImpersonated
  <2>2. StaticSecret(c) \in {"read", "write"}
    BY DEF StaticSecret
  <2>3. [call[c] EXCEPT !.exchange = "failed", !.what = StaticSecret(c)] \in Call
    BY <2>1, <2>2, Updates
  <2> QED
    BY <1>8, <2>3, SMT DEF NotImpersonated, ToStatic, AskVault
<1>9. CASE TokenFetched(c)
  <2>1. call[c].doc.user \in User
    BY <1>9, SMT DEF TokenFetched, Grant
  <2>2. call[c].what \in {"jwt", "read", "write"}
    BY <1>9, SMT DEF TokenFetched
  <2>3. CASE Inject(c, call[c].what, call[c].doc.user) /\ UNCHANGED call
    <3>1. injected' \in [Stream -> Credential \union {None}]
      BY <2>1, <2>2, <2>3, InjectType
    <3> QED
      BY <1>9, <2>3, <3>1, SMT DEF TokenFetched, Inject
  <2>4. CASE Deny(c)
    BY <1>9, <2>4, SMT DEF TokenFetched
  <2> QED
    BY <1>9, <2>3, <2>4 DEF TokenFetched
<1>10. CASE TokenFailed(c)
  BY <1>10, SMT DEF TokenFailed
<1>11. CASE UserPermitted(c)
  <2> DEFINE x == IF call[c].caller = "user" THEN "call" ELSE "failed"
             w == IF call[c].req.tool = None THEN "_default" ELSE "tool"
  <2>1. call[c] \in Call
    BY <1>11, SMT DEF UserPermitted
  <2>2. [call[c] EXCEPT !.exchange = x, !.what = w] \in Call
    BY <2>1, Updates
  <2> QED
    BY <1>11, <2>2, SMT DEF UserPermitted, AskVault
<1>12. CASE UserDenied(c)
  BY <1>12, SMT DEF UserDenied
<1>13. CASE Exchanged(c)
  <2>1. call[c] \in Call
    BY <1>13, SMT DEF Exchanged
  <2>2. PICK r \in {"success", "failed"} :
          call' = [call EXCEPT ![c].exchange = r]
    BY <1>13 DEF Exchanged
  <2>3. [call[c] EXCEPT !.exchange = r] \in Call
    BY <2>1, Updates
  <2> QED
    BY <1>13, <2>2, <2>3, SMT DEF Exchanged
<1>14. CASE FallBack(c)
  <2>1. call[c] \in Call
    BY <1>14, SMT DEF FallBack
  <2>2. [call[c] EXCEPT !.what = "_default"] \in Call
    BY <2>1, Updates
  <2> QED
    BY <1>14, <2>2, SMT DEF FallBack, AskVault
<1>15. CASE Join(c)
  <2>1. call[c] \in Call
    BY <1>15, SMT DEF Join
  <2>2. [call[c] EXCEPT !.what = "read"] \in Call
    BY <2>1, Updates
  <2>3. CASE Inject(c, "jwt", call[c].req.user) /\ BothLegs(c) /\ UNCHANGED call
    <3>1. call[c].req.user \in User
      BY <1>15, <2>1, <2>3, SMT DEF Join, BothLegs, Call
    <3>2. injected' \in [Stream -> Credential \union {None}]
      BY <2>3, <3>1, InjectType
    <3> QED
      BY <1>15, <2>3, <3>2, SMT DEF Join, Inject
  <2>4. CASE Goto(c, "static") /\ AskVault(c)
              /\ call' = [call EXCEPT ![c].what = "read"]
              /\ UNCHANGED <<injected, passed, audit>>
    BY <1>15, <2>2, <2>4, SMT DEF Join, AskVault
  <2>5. CASE Deny(c)
    BY <1>15, <2>5, SMT DEF Join
  <2> QED
    BY <1>15, <2>3, <2>4, <2>5 DEF Join
<1>16. CASE StaticFetched(c)
  <2>1. call[c].req.user \in User
    BY <1>16, SMT DEF StaticFetched, Call
  <2>2. CASE Inject(c, "read", call[c].req.user) /\ UNCHANGED call
    <3>1. injected' \in [Stream -> Credential \union {None}]
      BY <2>1, <2>2, InjectType
    <3> QED
      BY <1>16, <2>2, <3>1, SMT DEF StaticFetched, Inject
  <2>3. CASE Deny(c)
    BY <1>16, <2>3, SMT DEF StaticFetched
  <2> QED
    BY <1>16, <2>2, <2>3 DEF StaticFetched
<1> QED
  BY <1>1, <1>2, <1>3, <1>4, <1>5, <1>6, <1>7, <1>8, <1>9, <1>10, <1>11, <1>12,
     <1>13, <1>14, <1>15, <1>16 DEF Process

\* A stream that sees what is new has its locals still.
LEMMA SeenType ==
  ASSUME TypeOK, PlaceInv, NEW g \in [Sandbox -> Grant \union {None}],
         NEW js \in SUBSET SessionJwts, NEW c \in Stream, Working(c)
  PROVE  [call[c] EXCEPT !.consents = @ \union Consent(call[c].req, g),
                         !.jwts = @ \union js] \in Call
<1>1. call[c] \in Call
  BY SMT DEF TypeOK, PlaceInv, Place, Working
<1>2. Consent(call[c].req, g) \subseteq User \X Scopes
  BY <1>1, ConsentType DEF Call
<1> QED
  BY <1>1, <1>2, Zenon DEF Call

\* The world may change at any time.
LEMMA ShownTypes ==
  ASSUME TypeOK, PlaceInv, NEW g \in [Sandbox -> Grant \union {None}],
         NEW js \in SUBSET SessionJwts, Shown(g, js)
  PROVE  TypeOK'
<1> DEFINE seen(c) == [call[c] EXCEPT !.consents = @ \union Consent(call[c].req, g),
                                      !.jwts = @ \union js]
<1>1. ASSUME NEW c \in Stream, Working(c)
      PROVE  seen(c) \in Call
  BY <1>1, SeenType
<1>2. call' = [c \in Stream |-> IF Working(c) THEN seen(c) ELSE call[c]]
  BY Zenon DEF Shown, Working
<1>3. ASSUME NEW c \in Stream
      PROVE  (IF Working(c) THEN seen(c) ELSE call[c]) \in Call \union {None}
  BY <1>1 DEF TypeOK
<1>4. call' \in [Stream -> Call \union {None}]
  <2> HIDE DEF seen
  <2> QED
    BY <1>2, <1>3
<1>5. /\ grant' = g /\ valid' = js
      /\ UNCHANGED <<pc, vt, injected, passed, audit, token, age, mutex>>
  BY DEF Shown, client
<1> QED
  BY <1>4, <1>5, SMT DEF TypeOK

\* So does everything that happens in the world.
LEMMA WorldTypes ==
  ASSUME TypeOK, PlaceInv, World
  PROVE  TypeOK'
<1>1. ASSUME NEW u \in Sandbox, NEW g \in Grants \union {None}, WriteGrant(u, g)
      PROVE  TypeOK'
  <2>1. [grant EXCEPT ![u] = g] \in [Sandbox -> Grant \union {None}]
    BY WorldAssumption, SMT DEF TypeOK
  <2>2. valid \in SUBSET SessionJwts
    BY DEF TypeOK
  <2> QED
    BY <1>1, <2>1, <2>2, ShownTypes DEF WriteGrant
<1>2. ASSUME NEW j \in SessionJwts, MintJwt(j) \/ JwtExpires(j)
      PROVE  TypeOK'
  <2>1. /\ grant \in [Sandbox -> Grant \union {None}]
        /\ valid \union {j} \in SUBSET SessionJwts
        /\ valid \ {j} \in SUBSET SessionJwts
    BY DEF TypeOK
  <2> QED
    BY <1>2, <2>1, ShownTypes DEF MintJwt, JwtExpires
<1>3. CASE Tick
  <2>1. ASSUME NEW c \in Stream, call[c] # None
        PROVE  [call[c] EXCEPT !.doc = Older(@)] \in Call
    <3>1. call[c] \in Call
      BY <2>1 DEF TypeOK
    <3>2. Older(call[c].doc) \in Grant \union {None}
      BY <3>1, OlderType DEF Call
    <3> QED
      BY <3>1, <3>2, Updates
  <2>2. call' \in [Stream -> Call \union {None}]
    BY <1>3, <2>1, SMT DEF Tick, TypeOK
  <2>3. grant' \in [Sandbox -> Grant \union {None}]
    BY <1>3, OlderType, SMT DEF Tick, TypeOK
  <2>4. age' \in 0 .. TokenLife
    <3>1. age \in 0 .. TokenLife /\ TokenLife \in Nat
      BY WorldAssumption DEF TypeOK
    <3>2. age' = IF age = 0 THEN 0 ELSE age - 1
      BY <1>3 DEF Tick
    <3> QED
      BY <3>1, <3>2, SMT
  <2>5. UNCHANGED <<pc, vt, injected, passed, audit, token, mutex, valid>>
    BY <1>3 DEF Tick
  <2> QED
    BY <2>2, <2>3, <2>4, <2>5, SMT DEF TypeOK
<1>4. CASE Revoke
  BY <1>4, SMT DEF Revoke, TypeOK, world
<1> QED
  BY <1>1, <1>2, <1>3, <1>4 DEF World

-----------------------------------------------------------------------------
(* A step of one stream is nobody else's.                                    *)

Elsewhere(c) ==
  /\ \A d \in Stream \ {c} :
       /\ pc'[d] = pc[d] /\ call'[d] = call[d] /\ vt'[d] = vt[d]
       /\ injected'[d] = injected[d] /\ passed'[d] = passed[d]
       /\ audit'[d] = audit[d]
  /\ UNCHANGED world

\* A message of the gateway is to one stream.
LEMMA GatewayElsewhere ==
  ASSUME TypeOK, NEW c \in Stream, Gateway(c)
  PROVE  Elsewhere(c)
<1> USE DEF TypeOK, Elsewhere, Deny, Return, Rest, Goto, Step, client, world
<1>0. ASSUME NEW r \in Requests, Open(c, r) PROVE Elsewhere(c)
  BY <1>0, SMT DEF Open
<1>1. CASE Close(c)
  BY <1>1, SMT DEF Close
<1>2. CASE Headers(c)
  BY <1>2, SMT DEF Headers
<1>3. CASE HeadersRefused(c)
  BY <1>3, SMT DEF HeadersRefused
<1>4. CASE Body(c)
  BY <1>4, SMT DEF Body, AskVault
<1>5. CASE BodyRefused(c)
  BY <1>5, SMT DEF BodyRefused
<1>6. CASE Response(c)
  BY <1>6, SMT DEF Response
<1>7. CASE ResponseRefused(c)
  BY <1>7, SMT DEF ResponseRefused
<1> QED
  BY <1>0, <1>1, <1>2, <1>3, <1>4, <1>5, <1>6, <1>7 DEF Gateway

\* The Vault client answers one stream.
LEMMA VaultElsewhere ==
  ASSUME TypeOK, NEW c \in Stream, Vault(c)
  PROVE  Elsewhere(c)
<1> USE DEF TypeOK, Elsewhere, Deny, Return, Rest, Goto, Step, client, world
<1>1. CASE LoggedIn(c)
  BY <1>1, SMT DEF LoggedIn
<1>2. CASE LoginBegins(c)
  BY <1>2, SMT DEF LoginBegins
<1>3. CASE LoginAnswered(c)
  BY <1>3, SMT DEF LoginAnswered
<1>4. CASE LoginFailed(c)
  BY <1>4, SMT DEF LoginFailed
<1>5. CASE TokenRead(c)
  BY <1>5, SMT DEF TokenRead
<1>6. CASE Fetched(c)
  BY <1>6, SMT DEF Fetched
<1>7. CASE FetchFailed(c)
  BY <1>7, SMT DEF FetchFailed
<1> QED
  BY <1>1, <1>2, <1>3, <1>4, <1>5, <1>6, <1>7 DEF Vault

\* A stream decides for itself.
LEMMA ProcessElsewhere ==
  ASSUME TypeOK, NEW c \in Stream, Process(c)
  PROVE  Elsewhere(c)
<1> USE DEF TypeOK, Elsewhere, Deny, Return, Rest, Goto, Step, client, world
<1>1. CASE GrantFailed(c)
  BY <1>1, SMT DEF GrantFailed
<1>2. CASE GrantRefused(c)
  BY <1>2, SMT DEF GrantRefused
<1>3. CASE GrantAccepted(c)
  BY <1>3, SMT DEF GrantAccepted
<1>4. CASE SandboxPermitted(c)
  BY <1>4, SMT DEF SandboxPermitted
<1>5. CASE SandboxDenied(c)
  BY <1>5, SMT DEF SandboxDenied
<1>6. CASE Impersonated(c)
  BY <1>6, SMT DEF Impersonated, ToStatic, Inject, AskVault
<1>7. CASE ImpersonatedPrivileged(c)
  BY <1>7, SMT DEF ImpersonatedPrivileged
<1>8. CASE NotImpersonated(c)
  BY <1>8, SMT DEF NotImpersonated, ToStatic, AskVault
<1>9. CASE TokenFetched(c)
  BY <1>9, SMT DEF TokenFetched, Inject
<1>10. CASE TokenFailed(c)
  BY <1>10, SMT DEF TokenFailed
<1>11. CASE UserPermitted(c)
  BY <1>11, SMT DEF UserPermitted, AskVault
<1>12. CASE UserDenied(c)
  BY <1>12, SMT DEF UserDenied
<1>13. CASE Exchanged(c)
  BY <1>13, SMT DEF Exchanged
<1>14. CASE FallBack(c)
  BY <1>14, SMT DEF FallBack, AskVault
<1>15. CASE Join(c)
  BY <1>15, SMT DEF Join, AskVault, Inject
<1>16. CASE StaticFetched(c)
  BY <1>16, SMT DEF StaticFetched, Inject
<1> QED
  BY <1>1, <1>2, <1>3, <1>4, <1>5, <1>6, <1>7, <1>8, <1>9, <1>10, <1>11, <1>12,
     <1>13, <1>14, <1>15, <1>16 DEF Process

-----------------------------------------------------------------------------
(* Where a stream is.                                                        *)

\* After a message a stream knows what its place says.
LEMMA GatewayPlace ==
  ASSUME TypeOK, PlaceInv, NEW c \in Stream, Gateway(c)
  PROVE  Place(c)'
<1> USE WorldAssumption, NoneAssumption
    DEF TypeOK, Place, Working, Waits, Deny, Return, Rest, Goto, Step, client, world, PlaceInv
<1>0. ASSUME NEW r \in Requests, Open(c, r) PROVE Place(c)'
  <2> DEFINE k == [req |-> r, got |-> {}, caller |-> "nobody", doc |-> None,
                   elevated |-> FALSE, exchange |-> "none", what |-> "none",
                   consents |-> {}, jwts |-> {}]
  <2>1. k \in Call \ {None}
    <3>1. k \in Call
      BY SMT DEF Call
    <3> QED
      BY <3>1
  <2>2. call'[c] = k /\ pc'[c] = "message" /\ vt'[c] = "none"
    BY <1>0, SMT DEF Open
  <2> QED
    BY <2>1, <2>2, SMT
<1>1. CASE Close(c)
  BY <1>1, SMT DEF Close
<1>2. CASE Headers(c)
  <2> DEFINE k == [call[c] EXCEPT !.got = {"headers"},
                     !.caller = IF call[c].req.svid # None THEN "sandbox" ELSE "user"]
  <2>1. call[c] \in Call
    BY <1>2, SMT DEF Headers
  <2>2. k \in Call \ {None}
    <3>1. k \in Call
      BY <2>1, Zenon DEF Call
    <3> QED
      BY <3>1
  <2>3. /\ call[c].req.svid \in Sandbox \union {None}
        /\ call[c].req.svid \in Sandbox \/ call[c].req.user \in User
    BY <2>1, SMT DEF Call, Request
  <2>4. call'[c] = k /\ pc'[c] = "message" /\ vt'[c] = "none"
    BY <1>2, <2>1, SMT DEF Headers
  <2>5. /\ k.req = call[c].req /\ k.exchange = call[c].exchange
        /\ k.caller = IF call[c].req.svid # None THEN "sandbox" ELSE "user"
    BY <2>1, SMT DEF Call
  <2> HIDE DEF k
  <2> QED
    BY <2>2, <2>3, <2>4, <2>5, SMT
<1>3. CASE HeadersRefused(c)
  BY <1>3, SMT DEF HeadersRefused
<1>4. CASE Body(c)
  <2> DEFINE k == [call[c] EXCEPT !.got = call[c].got \union {"body"}, !.what = "grant",
                     !.consents = Consent(call[c].req, grant), !.jwts = valid]
  <2>1. call[c] \in Call
    BY <1>4, SMT DEF Body
  <2>2. Consent(call[c].req, grant) \subseteq User \X Scopes
    BY <2>1, ConsentType DEF Call
  <2>3. k \in Call \ {None}
    <3>1. k \in Call
      BY <2>1, <2>2, Zenon DEF Call
    <3> QED
      BY <3>1
  <2>4. /\ call'[c] = k
        /\ \/ call[c].caller = "sandbox" /\ pc'[c] = "grant"
           \/ call[c].caller # "sandbox" /\ pc'[c] = "jit"
    BY <1>4, <2>1, SMT DEF Body, AskVault
  <2>5. /\ k.req = call[c].req /\ k.exchange = call[c].exchange
        /\ k.caller = call[c].caller /\ "body" \in k.got
    BY <2>1, SMT DEF Call
  <2>6. pc[c] = "message"
    BY <1>4 DEF Body
  <2> HIDE DEF k
  <2> QED
    BY <2>1, <2>3, <2>4, <2>5, <2>6, SMT
<1>5. CASE BodyRefused(c)
  BY <1>5, SMT DEF BodyRefused
<1>6. CASE Response(c)
  <2>1. call[c] \in Call
    BY <1>6, SMT DEF Response
  <2>2. [call[c] EXCEPT !.got = call[c].got \union {"response"}] \in Call \ {None}
    <3>1. [call[c] EXCEPT !.got = call[c].got \union {"response"}] \in Call
      BY <2>1, SMT DEF Call
    <3> QED
      BY <3>1
  <2> QED
    BY <1>6, <2>1, <2>2, SMT DEF Response, Call
<1>7. CASE ResponseRefused(c)
  BY <1>7, SMT DEF ResponseRefused, Delegated
<1> QED
  BY <1>0, <1>1, <1>2, <1>3, <1>4, <1>5, <1>6, <1>7 DEF Gateway

\* After a step of the Vault client, too.
LEMMA VaultPlace ==
  ASSUME TypeOK, PlaceInv, NEW c \in Stream, Vault(c)
  PROVE  Place(c)'
<1> USE WorldAssumption, NoneAssumption
    DEF TypeOK, Place, Working, Waits, Deny, Return, Rest, Goto, Step, client, world, PlaceInv
<1>1. CASE LoggedIn(c)
  BY <1>1, SMT DEF LoggedIn
<1>2. CASE LoginBegins(c)
  BY <1>2, SMT DEF LoginBegins
<1>3. CASE LoginAnswered(c)
  BY <1>3, SMT DEF LoginAnswered, CachedFor
<1>4. CASE LoginFailed(c)
  BY <1>4, SMT DEF LoginFailed, AfterFailedLogin
<1>5. CASE TokenRead(c)
  BY <1>5, SMT DEF TokenRead
<1>6. CASE Fetched(c)
  BY <1>6, SMT DEF Fetched, Call
<1>7. CASE FetchFailed(c)
  BY <1>7, SMT DEF FetchFailed
<1> QED
  BY <1>1, <1>2, <1>3, <1>4, <1>5, <1>6, <1>7 DEF Vault

\* After a decision, too.
LEMMA ProcessPlace ==
  ASSUME TypeOK, PlaceInv, NEW c \in Stream, Process(c)
  PROVE  Place(c)'
<1> USE WorldAssumption, NoneAssumption
    DEF TypeOK, Place, Working, Waits, Deny, Return, Rest, Goto, Step, client, world, PlaceInv
<1>1. CASE GrantFailed(c)
  BY <1>1, SMT DEF GrantFailed
<1>2. CASE GrantRefused(c)
  BY <1>2, SMT DEF GrantRefused
<1>3. CASE GrantAccepted(c)
  BY <1>3, SMT DEF GrantAccepted, GrantBinds, Call
<1>4. CASE SandboxPermitted(c)
  <2>1. call[c] \in Call
    BY <1>4, SMT DEF SandboxPermitted
  <2>2. PICK js \in Verifiable(c) :
          call' = [call EXCEPT ![c] = [call[c] EXCEPT
                     !.elevated = Elevated(c, js), !.exchange = "call"]]
    BY <1>4 DEF SandboxPermitted
  <2>3. PICK e \in BOOLEAN : e = Elevated(c, js)
    BY DEF Elevated
  <2>4. [call[c] EXCEPT !.elevated = e, !.exchange = "call"] \in Call \ {None}
    BY <2>1, Updates
  <2>5. call' = [call EXCEPT ![c] = [call[c] EXCEPT !.elevated = e, !.exchange = "call"]]
    BY <2>2, <2>3
  <2> QED
    BY <1>4, <2>1, <2>4, <2>5, SMT DEF SandboxPermitted, Call
<1>5. CASE SandboxDenied(c)
  BY <1>5, SMT DEF SandboxDenied
<1>6. CASE Impersonated(c)
  <2>1. call[c] \in Call
    BY <1>6, SMT DEF Impersonated
  <2>3. StaticSecret(c) \in {"read", "write"}
    BY DEF StaticSecret
  <2>2. /\ [call[c] EXCEPT !.exchange = "success", !.what = StaticSecret(c)] \in Call \ {None}
        /\ [call[c] EXCEPT !.exchange = "success"] \in Call \ {None}
    BY <2>1, <2>3, Updates
  <2>4. CASE ToStatic(c, "success")
    BY <1>6, <2>1, <2>2, <2>3, <2>4, SMT DEF Impersonated, ToStatic, AskVault, Call
  <2>5. CASE /\ call' = [call EXCEPT ![c].exchange = "success"]
             /\ Inject(c, "jwt", call[c].doc.user)
    BY <1>6, <2>1, <2>2, <2>5, SMT DEF Impersonated, Inject, Call
  <2> QED
    BY <1>6, <2>4, <2>5 DEF Impersonated
<1>7. CASE ImpersonatedPrivileged(c)
  BY <1>7, SMT DEF ImpersonatedPrivileged
<1>8. CASE NotImpersonated(c)
  <2>1. call[c] \in Call
    BY <1>8, SMT DEF NotImpersonated
  <2>3. StaticSecret(c) \in {"read", "write"}
    BY DEF StaticSecret
  <2>2. [call[c] EXCEPT !.exchange = "failed", !.what = StaticSecret(c)] \in Call \ {None}
    BY <2>1, <2>3, Updates
  <2>4. CASE ToStatic(c, "failed")
    BY <1>8, <2>1, <2>2, <2>3, <2>4, SMT DEF NotImpersonated, ToStatic, AskVault, Call
  <2>5. CASE Deny(c)
    BY <1>8, <2>5, SMT DEF NotImpersonated
  <2> QED
    BY <1>8, <2>4, <2>5 DEF NotImpersonated
<1>9. CASE TokenFetched(c)
  BY <1>9, SMT DEF TokenFetched, Inject
<1>10. CASE TokenFailed(c)
  BY <1>10, SMT DEF TokenFailed
<1>11. CASE UserPermitted(c)
  <2>1. call[c] \in Call
    BY <1>11, SMT DEF UserPermitted
  <2> DEFINE x == IF call[c].caller = "user" THEN "call" ELSE "failed"
             w == IF call[c].req.tool = None THEN "_default" ELSE "tool"
  <2>2. [call[c] EXCEPT !.exchange = x, !.what = w] \in Call \ {None}
    BY <2>1, Updates
  <2> QED
    BY <1>11, <2>1, <2>2, SMT DEF UserPermitted, AskVault, Call
<1>12. CASE UserDenied(c)
  BY <1>12, SMT DEF UserDenied
<1>13. CASE Exchanged(c)
  <2>1. call[c] \in Call
    BY <1>13, SMT DEF Exchanged
  <2>2. PICK r \in {"success", "failed"} :
          call' = [call EXCEPT ![c].exchange = r]
    BY <1>13 DEF Exchanged
  <2>3. [call[c] EXCEPT !.exchange = r] \in Call \ {None}
    BY <2>1, Updates
  <2>4. call[c].caller # "nobody"
    BY <1>13, SMT DEF Exchanged
  <2> QED
    BY <1>13, <2>1, <2>2, <2>3, <2>4, SMT DEF Exchanged, Call
<1>14. CASE FallBack(c)
  <2>1. call[c] \in Call
    BY <1>14, SMT DEF FallBack
  <2>2. [call[c] EXCEPT !.what = "_default"] \in Call \ {None}
    BY <2>1, Updates
  <2> QED
    BY <1>14, <2>1, <2>2, SMT DEF FallBack, AskVault, Call
<1>15. CASE Join(c)
  <2>1. call[c] \in Call
    BY <1>15, SMT DEF Join
  <2>2. [call[c] EXCEPT !.what = "read"] \in Call \ {None}
    BY <2>1, Updates
  <2> QED
    BY <1>15, <2>1, <2>2, SMT DEF Join, AskVault, Inject, BothLegs, LegsOver, Call
<1>16. CASE StaticFetched(c)
  BY <1>16, SMT DEF StaticFetched, Inject
<1> QED
  BY <1>1, <1>2, <1>3, <1>4, <1>5, <1>6, <1>7, <1>8, <1>9, <1>10, <1>11, <1>12,
     <1>13, <1>14, <1>15, <1>16 DEF Process

-----------------------------------------------------------------------------
(* How it ends.                                                              *)

\* A message leads to a response only with a credential.
LEMMA GatewayOutcome ==
  ASSUME TypeOK, TypeOK', PlaceInv, OutcomeInv, FailClosed, NEW c \in Stream, Gateway(c)
  PROVE  Outcome(c)' /\ Closed(c)'
<1> USE NoneAssumption
    DEF TypeOK, Place, PlaceInv, Outcome, OutcomeInv, FailClosed, Closed, Working,
        Waits, Deny, Return, Rest, Goto, Step, client, world
<1>0. ASSUME NEW r \in Requests, Open(c, r) PROVE Outcome(c)' /\ Closed(c)'
  BY <1>0, SMT DEF Open
<1>1. CASE Close(c)
  BY <1>1, SMT DEF Close
<1>2. CASE Headers(c)
  BY <1>2, SMT DEF Headers, Call
<1>3. CASE HeadersRefused(c)
  BY <1>3, SMT DEF HeadersRefused
<1>4. CASE Body(c)
  BY <1>4, SMT DEF Body, AskVault
<1>5. CASE BodyRefused(c)
  BY <1>5, SMT DEF BodyRefused
<1>6. CASE Response(c)
  BY <1>6, SMT DEF Response, Delegated, Allowed
<1>7. CASE ResponseRefused(c)
  BY <1>7, SMT DEF ResponseRefused, Delegated
<1> QED
  BY <1>0, <1>1, <1>2, <1>3, <1>4, <1>5, <1>6, <1>7 DEF Gateway

\* The Vault client decides nothing.
LEMMA VaultOutcome ==
  ASSUME TypeOK, TypeOK', PlaceInv, OutcomeInv, FailClosed, NEW c \in Stream, Vault(c)
  PROVE  Outcome(c)' /\ Closed(c)'
<1> USE NoneAssumption
    DEF TypeOK, Place, PlaceInv, Outcome, OutcomeInv, FailClosed, Closed, Working,
        Waits, Deny, Return, Rest, Goto, Step, client, world
<1>1. CASE LoggedIn(c)
  BY <1>1, SMT DEF LoggedIn
<1>2. CASE LoginBegins(c)
  BY <1>2, SMT DEF LoginBegins
<1>3. CASE LoginAnswered(c)
  BY <1>3, SMT DEF LoginAnswered, CachedFor
<1>4. CASE LoginFailed(c)
  BY <1>4, SMT DEF LoginFailed, AfterFailedLogin
<1>5. CASE TokenRead(c)
  BY <1>5, SMT DEF TokenRead
<1>6. CASE Fetched(c)
  BY <1>6, SMT DEF Fetched, Call
<1>7. CASE FetchFailed(c)
  BY <1>7, SMT DEF FetchFailed
<1> QED
  BY <1>1, <1>2, <1>3, <1>4, <1>5, <1>6, <1>7 DEF Vault

\* A decision injects, or denies for good.
LEMMA ProcessOutcome ==
  ASSUME TypeOK, TypeOK', PlaceInv, OutcomeInv, FailClosed, NEW c \in Stream, Process(c)
  PROVE  Outcome(c)' /\ Closed(c)'
<1> USE NoneAssumption
    DEF TypeOK, Place, PlaceInv, Outcome, OutcomeInv, FailClosed, Closed, Working,
        Waits, Deny, Return, Rest, Goto, Step, client, world
<1>1. CASE GrantFailed(c)
  BY <1>1, SMT DEF GrantFailed
<1>2. CASE GrantRefused(c)
  BY <1>2, SMT DEF GrantRefused
<1>3. CASE GrantAccepted(c)
  BY <1>3, SMT DEF GrantAccepted, GrantBinds
<1>4. CASE SandboxPermitted(c)
  BY <1>4, SMT DEF SandboxPermitted
<1>5. CASE SandboxDenied(c)
  BY <1>5, SMT DEF SandboxDenied
<1>6. CASE Impersonated(c)
  <2>1. call[c] \in Call
    BY <1>6, SMT DEF Impersonated
  <2>2. CASE ToStatic(c, "success")
    BY <1>6, <2>1, <2>2, SMT DEF Impersonated, ToStatic, AskVault
  <2>3. CASE /\ call' = [call EXCEPT ![c].exchange = "success"]
             /\ Inject(c, "jwt", call[c].doc.user)
    BY <1>6, <2>1, <2>3, SMT DEF Impersonated, Inject, Call
  <2> QED
    BY <1>6, <2>2, <2>3 DEF Impersonated
<1>7. CASE ImpersonatedPrivileged(c)
  BY <1>7, SMT DEF ImpersonatedPrivileged
<1>8. CASE NotImpersonated(c)
  BY <1>8, SMT DEF NotImpersonated, ToStatic, AskVault, StaticSecret
<1>9. CASE TokenFetched(c)
  BY <1>9, SMT DEF TokenFetched, Inject
<1>10. CASE TokenFailed(c)
  BY <1>10, SMT DEF TokenFailed
<1>11. CASE UserPermitted(c)
  BY <1>11, SMT DEF UserPermitted, AskVault
<1>12. CASE UserDenied(c)
  BY <1>12, SMT DEF UserDenied
<1>13. CASE Exchanged(c)
  BY <1>13, SMT DEF Exchanged
<1>14. CASE FallBack(c)
  BY <1>14, SMT DEF FallBack, AskVault
<1>15. CASE Join(c)
  BY <1>15, SMT DEF Join, AskVault, Inject, BothLegs, LegsOver
<1>16. CASE StaticFetched(c)
  BY <1>16, SMT DEF StaticFetched, Inject
<1> QED
  BY <1>1, <1>2, <1>3, <1>4, <1>5, <1>6, <1>7, <1>8, <1>9, <1>10, <1>11, <1>12,
     <1>13, <1>14, <1>15, <1>16 DEF Process

-----------------------------------------------------------------------------
(* Why a sandbox's agent has a credential.                                   *)

\* The body starts with the consent there is.
LEMMA GatewayConsent ==
  ASSUME TypeOK, PlaceInv, OutcomeInv, ConsentInv, InjectedByConsent,
         TypeOK', NEW c \in Stream, Gateway(c)
  PROVE  Consented(c)' /\ Justified(c)'
<1> USE NoneAssumption
    DEF TypeOK, Place, PlaceInv, Outcome, OutcomeInv, Consented, ConsentInv,
        InjectedByConsent, Justified, Carries, Working, Waits, Deny, Return, Rest, Goto,
        Step, client, world
<1>0. ASSUME NEW r \in Requests, Open(c, r) PROVE Consented(c)' /\ Justified(c)'
  BY <1>0, SMT DEF Open
<1>1. CASE Close(c)
  BY <1>1, SMT DEF Close
<1>2. CASE Headers(c)
  BY <1>2, SMT DEF Headers, Call
<1>3. CASE HeadersRefused(c)
  BY <1>3, SMT DEF HeadersRefused
<1>4. CASE Body(c)
  BY <1>4, SMT DEF Body, AskVault
<1>5. CASE BodyRefused(c)
  BY <1>5, SMT DEF BodyRefused
<1>6. CASE Response(c)
  BY <1>6, SMT DEF Response, Delegated, Allowed
<1>7. CASE ResponseRefused(c)
  BY <1>7, SMT DEF ResponseRefused, Delegated
<1> QED
  BY <1>0, <1>1, <1>2, <1>3, <1>4, <1>5, <1>6, <1>7 DEF Gateway

\* A stream that stays where it is, with its grant still to come, if any.
LEMMA Steady ==
  ASSUME ConsentInv, InjectedByConsent, NEW c \in Stream, vt'[c] # "done",
         UNCHANGED <<pc, call, injected, grant, valid>>
  PROVE  Consented(c)' /\ Justified(c)'
<1>1. Consented(c) /\ Justified(c)
  BY DEF ConsentInv, InjectedByConsent, Justified
<1>2. StaticSecret(c)' = StaticSecret(c)
  BY DEF StaticSecret
<1>3. Working(c)' = Working(c)
  BY DEF Working
<1>4. Justified(c)'
  BY <1>1 DEF Justified, Carries
<1>5. Consented(c)'
  BY <1>1, <1>2, <1>3 DEF Consented
<1> QED
  BY <1>4, <1>5

\* A grant comes with the consent it stands for.
LEMMA VaultConsent ==
  ASSUME TypeOK, PlaceInv, OutcomeInv, ConsentInv, InjectedByConsent,
         TypeOK', NEW c \in Stream, Vault(c)
  PROVE  Consented(c)' /\ Justified(c)'
<1> USE NoneAssumption
    DEF TypeOK, Place, PlaceInv, Outcome, OutcomeInv, Consented, ConsentInv,
        InjectedByConsent, Justified, Carries, Working, Waits, Deny, Return, Rest, Goto,
        Step, client, world
<1>1. CASE LoggedIn(c)
  <2>1. vt'[c] # "done" /\ UNCHANGED <<pc, call, injected, grant, valid>>
    BY <1>1, SMT DEF LoggedIn
  <2> QED
    BY <2>1, Steady
<1>2. CASE LoginBegins(c)
  <2>1. vt'[c] # "done" /\ UNCHANGED <<pc, call, injected, grant, valid>>
    BY <1>2, SMT DEF LoginBegins
  <2> QED
    BY <2>1, Steady
<1>3. CASE LoginAnswered(c)
  <2>1. vt'[c] # "done" /\ UNCHANGED <<pc, call, injected, grant, valid>>
    BY <1>3, SMT DEF LoginAnswered
  <2> QED
    BY <2>1, Steady
<1>4. CASE LoginFailed(c)
  <2>1. vt'[c] # "done" /\ UNCHANGED <<pc, call, injected, grant, valid>>
    BY <1>4, SMT DEF LoginFailed
  <2> QED
    BY <2>1, Steady
<1>5. CASE TokenRead(c)
  <2>1. vt'[c] # "done" /\ UNCHANGED <<pc, call, injected, grant, valid>>
    BY <1>5, SMT DEF TokenRead
  <2> QED
    BY <2>1, Steady
<1>6. CASE Fetched(c)
  <2> DEFINE d == IF pc[c] = "grant" THEN grant[call[c].req.svid] ELSE call[c].doc
  <2>1. call[c] \in Call /\ pc'[c] = pc[c] /\ vt'[c] = "done" /\ Working(c)
    BY <1>6, SMT DEF Fetched
  <2>2. call'[c] = [call[c] EXCEPT !.doc = d]
    BY <1>6, <2>1, SMT DEF Fetched
  <2>3. /\ call'[c].doc = d /\ call'[c].req = call[c].req
        /\ call'[c].caller = call[c].caller /\ call'[c].what = call[c].what
        /\ call'[c].elevated = call[c].elevated
        /\ call'[c].consents = call[c].consents /\ call'[c].jwts = call[c].jwts
    BY <2>1, <2>2, SMT DEF Call
  <2>4. injected' = injected /\ UNCHANGED world
    BY <1>6 DEF Fetched
  <2>5. CASE pc[c] = "grant" /\ call[c].caller = "sandbox"
    <3>1. call[c].req.svid \in Sandbox /\ d = grant[call[c].req.svid]
      BY <2>5, SMT
    <3>2. GrantBinds(c)' => <<d.user, d.scope>> \in Consent(call[c].req, grant)
      BY <2>3, <3>1, SMT DEF GrantBinds, GrantValid, Consent
    <3>3. Consent(call[c].req, grant) \subseteq call[c].consents
      BY <2>1, <2>5
    <3>4. Consented(c)'
      <4>1. /\ Consent(call'[c].req, grant') \subseteq call'[c].consents
            /\ valid' \subseteq call'[c].jwts
        <5>1. valid \subseteq call[c].jwts
          BY <2>1, <2>5
        <5>2. grant' = grant /\ valid' = valid
          BY <2>4
        <5> QED
          BY <2>3, <3>3, <5>1, <5>2
      <4> QED
        BY <2>1, <2>3, <2>5, <3>2, <3>3, <4>1
    <3> QED
      BY <2>1, <2>4, <3>4
  <2>6. CASE pc[c] # "grant"
    <3>1. call'[c] = call[c]
      BY <2>1, <2>2, <2>6, SMT DEF Call
    <3>2. StaticSecret(c)' = StaticSecret(c)
      BY <3>1 DEF StaticSecret
    <3>3. Working(c)' = Working(c)
      BY <2>1
    <3>4. Consented(c)'
      BY <2>1, <2>4, <2>6, <3>1, <3>2, <3>3
    <3> QED
      BY <2>1, <2>4, <3>4
  <2>7. CASE call[c].caller # "sandbox"
    BY <2>1, <2>3, <2>4, <2>7, SMT
  <2> QED
    BY <2>5, <2>6, <2>7
<1>7. CASE FetchFailed(c)
  <2>1. vt'[c] # "done" /\ UNCHANGED <<pc, call, injected, grant, valid>>
    BY <1>7, SMT DEF FetchFailed
  <2> QED
    BY <2>1, Steady
<1> QED
  BY <1>1, <1>2, <1>3, <1>4, <1>5, <1>6, <1>7 DEF Vault

\* What a stream that waits for the exchange, or for the token, has is reason
\* enough to inject a credential of the grant's user.
LEMMA InjectionJustified ==
  ASSUME PlaceInv, ConsentInv, NEW c \in Stream, pc[c] \in {"exchange", "token"},
         NEW kind \in {"jwt", call[c].what},
         pc[c] = "exchange" => kind = "jwt",
         injected'[c] = [kind |-> kind, user |-> call[c].doc.user],
         call'[c].req = call[c].req, call'[c].caller = call[c].caller,
         call'[c].consents = call[c].consents, call'[c].jwts = call[c].jwts
  PROVE  Justified(c)'
<1> DEFINE k == <<call[c].doc.user, call[c].doc.scope>>
<1>1. call[c] # None /\ call[c].caller = "sandbox"
  BY DEF PlaceInv, Place
<1>2. /\ k \in call[c].consents
      /\ IF call[c].elevated
         THEN call[c].req.jit \in call[c].jwts /\ Covers(call[c].req.jit, call[c].req)
         ELSE Baseline(call[c].doc.scope, call[c].req.tool)
      /\ pc[c] = "token" => call[c].what = StaticSecret(c)
  BY <1>1 DEF ConsentInv, Consented
<1>3. ~call[c].elevated => kind # "write"
  BY <1>2, SMT DEF StaticSecret
<1>4. k[1] = call[c].doc.user /\ k[2] = call[c].doc.scope
  OBVIOUS
<1>5. injected'[c].user = call[c].doc.user /\ injected'[c].kind = kind
  BY SMT
<1> HIDE DEF k
<1>6. /\ injected'[c].user = k[1]
      /\ \/ Baseline(k[2], call[c].req.tool) /\ injected'[c].kind # "write"
         \/ call[c].req.jit \in call[c].jwts /\ Covers(call[c].req.jit, call[c].req)
  BY <1>2, <1>3, <1>4, <1>5
<1> QED
  BY <1>2, <1>6 DEF Justified

\* Going for the static token takes nothing away.
LEMMA ToStaticConsent ==
  ASSUME TypeOK, PlaceInv, OutcomeInv, ConsentInv, NEW c \in Stream,
         pc[c] = "exchange", NEW result \in {"success", "failed"},
         ToStatic(c, result), UNCHANGED world
  PROVE  Consented(c)' /\ Justified(c)'
<1>1. /\ call[c] \in Call /\ call[c].caller = "sandbox" /\ injected[c] = None
      /\ call[c] # None
  BY SMT DEF TypeOK, PlaceInv, Place, OutcomeInv, Outcome, Working
<1>2. PICK w : w = StaticSecret(c)
  OBVIOUS
<1>3. /\ call'[c] = [call[c] EXCEPT !.exchange = result, !.what = w]
      /\ pc'[c] = "token" /\ injected' = injected
  BY <1>2, SMT DEF ToStatic, Goto, TypeOK
<1>4. /\ call'[c].req = call[c].req /\ call'[c].caller = call[c].caller
      /\ call'[c].consents = call[c].consents /\ call'[c].jwts = call[c].jwts
      /\ call'[c].doc = call[c].doc /\ call'[c].elevated = call[c].elevated
      /\ call'[c].what = w
  BY <1>1, <1>3, SMT DEF Call
<1>5. StaticSecret(c)' = w
  BY <1>2, <1>4 DEF StaticSecret
<1>6. /\ Consent(call[c].req, grant) \subseteq call[c].consents
      /\ valid \subseteq call[c].jwts
      /\ <<call[c].doc.user, call[c].doc.scope>> \in call[c].consents
      /\ IF call[c].elevated
         THEN call[c].req.jit \in call[c].jwts /\ Covers(call[c].req.jit, call[c].req)
         ELSE Baseline(call[c].doc.scope, call[c].req.tool)
  BY <1>1 DEF ConsentInv, Consented, Working
<1>7. Consented(c)'
  BY <1>3, <1>4, <1>5, <1>6, SMT DEF Consented, world
<1>8. Justified(c)'
  BY <1>1, <1>3 DEF Justified, Carries
<1> QED
  BY <1>7, <1>8

\* What is injected is justified by it.
LEMMA ProcessConsent ==
  ASSUME TypeOK, PlaceInv, OutcomeInv, ConsentInv, InjectedByConsent,
         TypeOK', NEW c \in Stream, Process(c)
  PROVE  Consented(c)' /\ Justified(c)'
<1> USE NoneAssumption
    DEF TypeOK, Place, PlaceInv, Outcome, OutcomeInv, Consented, ConsentInv,
        InjectedByConsent, Justified, Carries, Working, Waits, Deny, Return, Rest, Goto,
        Step, client, world
<1>1. CASE GrantFailed(c)
  BY <1>1, SMT DEF GrantFailed
<1>2. CASE GrantRefused(c)
  BY <1>2, SMT DEF GrantRefused
<1>3. CASE GrantAccepted(c)
  BY <1>3, SMT DEF GrantAccepted, GrantBinds
<1>4. CASE SandboxPermitted(c)
  <2>1. call[c] \in Call
    BY <1>4, SMT DEF SandboxPermitted
  <2>2. PICK js \in Verifiable(c) :
          /\ Permitted(c, js)
          /\ call' = [call EXCEPT ![c] = [call[c] EXCEPT
                        !.elevated = Elevated(c, js), !.exchange = "call"]]
    BY <1>4 DEF SandboxPermitted
  <2>3. PICK e \in BOOLEAN : e = Elevated(c, js)
    BY DEF Elevated
  <2>4. call'[c] = [call[c] EXCEPT !.elevated = e, !.exchange = "call"]
    BY <1>4, <2>1, <2>2, <2>3, SMT DEF SandboxPermitted
  <2>5. /\ call'[c].doc = call[c].doc /\ call'[c].req = call[c].req
        /\ call'[c].caller = call[c].caller /\ call'[c].elevated = e
        /\ call'[c].consents = call[c].consents /\ call'[c].jwts = call[c].jwts
    BY <2>1, <2>4, SMT DEF Call
  <2>6. Elevated(c, js) =>
          call[c].req.jit \in valid /\ Covers(call[c].req.jit, call[c].req)
    BY <2>2 DEF Elevated, Verifiable
  <2>7. ~Elevated(c, js) => Baseline(call[c].doc.scope, call[c].req.tool)
    BY <2>2 DEF Permitted
  <2>8. /\ pc[c] = "jit" /\ call[c].caller = "sandbox" /\ pc'[c] = "exchange"
        /\ injected' = injected /\ UNCHANGED world
    BY <1>4, SMT DEF SandboxPermitted
  <2>9. /\ Consent(call[c].req, grant) \subseteq call[c].consents
        /\ valid \subseteq call[c].jwts
        /\ <<call[c].doc.user, call[c].doc.scope>> \in call[c].consents
        /\ injected[c] = None
    BY <2>1, <2>8
  <2>10. IF e THEN call[c].req.jit \in call[c].jwts /\ Covers(call[c].req.jit, call[c].req)
              ELSE Baseline(call[c].doc.scope, call[c].req.tool)
    BY <2>3, <2>6, <2>7, <2>9
  <2> QED
    BY <2>5, <2>8, <2>9, <2>10, SMT
<1>5. CASE SandboxDenied(c)
  BY <1>5, SMT DEF SandboxDenied
<1>6. CASE Impersonated(c)
  <2>1. call[c] \in Call /\ pc[c] = "exchange"
    BY <1>6, SMT DEF Impersonated
  <2>2. CASE ToStatic(c, "success")
    BY <1>6, <2>1, <2>2, ToStaticConsent DEF Impersonated, client
  <2>3. CASE /\ call' = [call EXCEPT ![c].exchange = "success"]
             /\ Inject(c, "jwt", call[c].doc.user)
    <3>1. call'[c] = [call[c] EXCEPT !.exchange = "success"] /\ pc'[c] = "message"
      BY <2>1, <2>3, SMT DEF Inject
    <3>2. injected'[c] = [kind |-> "jwt", user |-> call[c].doc.user]
      BY <2>3, SMT DEF Inject
    <3>3. /\ call'[c].req = call[c].req /\ call'[c].caller = call[c].caller
          /\ call'[c].consents = call[c].consents /\ call'[c].jwts = call[c].jwts
      BY <2>1, <3>1, SMT DEF Call
    <3>4. Consented(c)'
      BY <3>1, SMT
    <3>5. Justified(c)'
      BY <2>1, <3>2, <3>3, InjectionJustified
    <3> QED
      BY <3>4, <3>5
  <2> QED
    BY <1>6, <2>2, <2>3 DEF Impersonated
<1>7. CASE ImpersonatedPrivileged(c)
  BY <1>7, SMT DEF ImpersonatedPrivileged
<1>8. CASE NotImpersonated(c)
  <2>1. CASE ToStatic(c, "failed")
    BY <1>8, <2>1, ToStaticConsent DEF NotImpersonated, client
  <2>2. CASE Deny(c)
    BY <1>8, <2>2, SMT DEF NotImpersonated
  <2> QED
    BY <1>8, <2>1, <2>2 DEF NotImpersonated
<1>9. CASE TokenFetched(c)
  <2>1. call[c] \in Call /\ pc[c] = "token"
    BY <1>9, SMT DEF TokenFetched
  <2>2. CASE Inject(c, call[c].what, call[c].doc.user) /\ UNCHANGED call
    <3>1. /\ injected'[c] = [kind |-> call[c].what, user |-> call[c].doc.user]
          /\ pc'[c] = "message" /\ call'[c] = call[c]
      BY <2>2, SMT DEF Inject
    <3>2. Consented(c)'
      BY <3>1, SMT
    <3>3. Justified(c)'
      BY <2>1, <3>1, InjectionJustified
    <3> QED
      BY <3>2, <3>3
  <2>3. CASE Deny(c)
    BY <1>9, <2>3, SMT DEF TokenFetched
  <2> QED
    BY <1>9, <2>2, <2>3 DEF TokenFetched
<1>10. CASE TokenFailed(c)
  BY <1>10, SMT DEF TokenFailed
<1>11. CASE UserPermitted(c)
  BY <1>11, SMT DEF UserPermitted, AskVault
<1>12. CASE UserDenied(c)
  BY <1>12, SMT DEF UserDenied
<1>13. CASE Exchanged(c)
  BY <1>13, SMT DEF Exchanged
<1>14. CASE FallBack(c)
  BY <1>14, SMT DEF FallBack, AskVault
<1>15. CASE Join(c)
  <2>1. call[c] \in Call /\ call[c].caller # "sandbox"
    BY <1>15, SMT DEF Join
  <2>2. \/ call'[c] = call[c]
        \/ call'[c] = [call[c] EXCEPT !.what = "read"]
        \/ call'[c] = None
    BY <1>15, SMT DEF Join
  <2>3. call'[c] = None \/ call'[c].caller # "sandbox"
    BY <2>1, <2>2, SMT DEF Call
  <2> QED
    BY <2>3
<1>16. CASE StaticFetched(c)
  BY <1>16, SMT DEF StaticFetched, Inject
<1> QED
  BY <1>1, <1>2, <1>3, <1>4, <1>5, <1>6, <1>7, <1>8, <1>9, <1>10, <1>11, <1>12,
     <1>13, <1>14, <1>15, <1>16 DEF Process

-----------------------------------------------------------------------------
(* The world's steps.                                                        *)

\* What a change of the grants and of the session JWTs does.
LEMMA ShownInv ==
  ASSUME Inv, NEW g \in [Sandbox -> Grant \union {None}],
         NEW js \in SUBSET SessionJwts, Shown(g, js)
  PROVE  PlaceInv' /\ OutcomeInv' /\ FailClosed' /\ ConsentInv' /\ InjectedByConsent'
<1>1. /\ grant' = g /\ valid' = js
      /\ UNCHANGED <<pc, vt, injected, passed, audit>>
  BY DEF Shown
<1>2. ASSUME NEW c \in Stream
      PROVE  /\ Place(c)' /\ Outcome(c)' /\ Closed(c)'
             /\ Consented(c)' /\ Justified(c)'
  <2>1. /\ Place(c) /\ Outcome(c) /\ Closed(c) /\ Consented(c) /\ Justified(c)
        /\ Working(c)' = Working(c)
        /\ call[c] # None => call[c] \in Call
    BY <1>1 DEF Inv, TypeOK, PlaceInv, OutcomeInv, FailClosed, Closed, ConsentInv,
                InjectedByConsent, Justified, Working
  <2>2. CASE ~Working(c)
    <3>1. call'[c] = call[c]
      BY <2>2 DEF Shown, Working
    <3>2. Place(c)' /\ Outcome(c)' /\ Closed(c)' /\ Justified(c)'
      BY <1>1, <2>1, <3>1 DEF Place, Outcome, Closed, Justified, Carries
    <3>3. Consented(c)'
      BY <1>1, <2>1, <2>2, <3>1, SMT DEF Consented, Working
    <3> QED
      BY <3>2, <3>3
  <2>3. CASE Working(c)
    <3>1. call[c] \in Call /\ call[c] # None
      BY <2>1, <2>3 DEF Place, Working
    <3>2. call'[c] = [call[c] EXCEPT !.consents = @ \union Consent(call[c].req, g),
                                     !.jwts = @ \union js]
      BY <2>3 DEF Shown, Working
    <3>3. /\ call'[c].req = call[c].req /\ call'[c].got = call[c].got
          /\ call'[c].caller = call[c].caller /\ call'[c].doc = call[c].doc
          /\ call'[c].elevated = call[c].elevated
          /\ call'[c].exchange = call[c].exchange /\ call'[c].what = call[c].what
          /\ call'[c].consents = call[c].consents \union Consent(call[c].req, g)
          /\ call'[c].jwts = call[c].jwts \union js
      BY <3>1, <3>2, SMT DEF Call
    <3>4. call'[c] # None
      <4>1. call'[c] \in Call
        <5>1. [call[c] EXCEPT !.consents = @ \union Consent(call[c].req, g),
                              !.jwts = @ \union js] \in Call
          BY <2>3, SeenType DEF Inv
        <5> QED
          BY <3>2, <5>1
      <4> QED
        BY <4>1, NoneAssumption
    <3>5. Place(c)' /\ Outcome(c)' /\ Closed(c)'
      BY <1>1, <2>1, <3>1, <3>3, <3>4 DEF Place, Outcome, Closed
    <3>6. injected[c] = None
      BY <2>1, <2>3 DEF Outcome
    <3>7. Justified(c)'
      BY <1>1, <3>6 DEF Justified, Carries
    <3>8. GrantBinds(c)' = GrantBinds(c) /\ StaticSecret(c)' = StaticSecret(c)
      BY <3>3 DEF GrantBinds, StaticSecret
    <3>9. Consented(c)'
      BY <1>1, <2>1, <2>3, <3>1, <3>3, <3>8 DEF Consented
    <3> QED
      BY <3>5, <3>7, <3>9
  <2> QED
    BY <2>2, <2>3
<1> QED
  BY <1>2 DEF PlaceInv, OutcomeInv, FailClosed, Closed, ConsentInv, InjectedByConsent,
              Justified

\* Age changes nothing but what a grant has left.
LEMMA OlderGrant ==
  ASSUME NEW g \in Grant
  PROVE  /\ Older(g) \in Grant /\ Older(g) # None
         /\ Older(g).user = g.user /\ Older(g).scope = g.scope
         /\ Older(g).sandbox = g.sandbox /\ Older(g).sound = g.sound
         /\ Older(g).life > 0 => g.life > 0
<1>1. g # None /\ MaxLife \in Nat
  BY NoneAssumption, WorldAssumption
<1>2. Older(g) = [g EXCEPT !.life = IF g.life = 0 THEN 0 ELSE g.life - 1]
  BY <1>1 DEF Older
<1>3. Older(g) \in Grant
  BY <1>1, <1>2, SMT DEF Grant
<1>4. Older(g) # None
  BY <1>3, NoneAssumption
<1> QED
  BY <1>1, <1>2, <1>3, <1>4, SMT DEF Grant

\* With age there is less consent, never more.
LEMMA OlderConsent ==
  ASSUME NEW r \in Requests, NEW g \in [Sandbox -> Grant \union {None}], NEW h,
         h = [u \in Sandbox |-> Older(g[u])]
  PROVE  Consent(r, h) \subseteq Consent(r, g)
<1>1. CASE r.svid \in Sandbox /\ g[r.svid] # None
  <2>1. g[r.svid] \in Grant /\ h[r.svid] = Older(g[r.svid])
    BY <1>1
  <2> QED
    BY <1>1, <2>1, OlderGrant DEF Consent
<1>2. CASE r.svid \notin Sandbox
  BY <1>2 DEF Consent
<1>3. CASE r.svid \in Sandbox /\ g[r.svid] = None
  <2>1. h[r.svid] = None
    BY <1>3 DEF Older
  <2> QED
    BY <2>1 DEF Consent
<1> QED
  BY <1>1, <1>2, <1>3

\* Time takes consent away, and justifications stay.
LEMMA TickInv ==
  ASSUME Inv, Tick
  PROVE  PlaceInv' /\ OutcomeInv' /\ FailClosed' /\ ConsentInv' /\ InjectedByConsent'
<1>1. /\ grant' = [u \in Sandbox |-> Older(grant[u])]
      /\ UNCHANGED <<pc, vt, injected, passed, audit, valid>>
  BY DEF Tick
<1>2. ASSUME NEW c \in Stream
      PROVE  /\ Place(c)' /\ Outcome(c)' /\ Closed(c)'
             /\ Consented(c)' /\ Justified(c)'
  <2>1. /\ Place(c) /\ Outcome(c) /\ Closed(c) /\ Consented(c) /\ Justified(c)
        /\ Working(c)' = Working(c)
        /\ call[c] # None => call[c] \in Call
        /\ grant \in [Sandbox -> Grant \union {None}]
    BY <1>1 DEF Inv, TypeOK, PlaceInv, OutcomeInv, FailClosed, Closed, ConsentInv,
                InjectedByConsent, Justified, Working
  <2>2. CASE call[c] = None
    <3>1. call'[c] = None
      BY <2>2 DEF Tick
    <3> QED
      BY <1>1, <2>1, <2>2, <3>1
         DEF Place, Outcome, Closed, Consented, Justified, Carries
  <2>3. CASE call[c] # None
    <3>1. call[c] \in Call
      BY <2>1, <2>3
    <3>2. call'[c] = [call[c] EXCEPT !.doc = Older(call[c].doc)]
      BY <2>3 DEF Tick
    <3>3. /\ call'[c].req = call[c].req /\ call'[c].got = call[c].got
          /\ call'[c].caller = call[c].caller
          /\ call'[c].doc = Older(call[c].doc)
          /\ call'[c].elevated = call[c].elevated
          /\ call'[c].exchange = call[c].exchange /\ call'[c].what = call[c].what
          /\ call'[c].consents = call[c].consents /\ call'[c].jwts = call[c].jwts
      BY <3>1, <3>2, SMT DEF Call
    <3>4. call'[c] # None
      <4>1. Older(call[c].doc) \in Grant \union {None}
        BY <3>1, OlderType DEF Call
      <4> QED
        BY <3>1, <3>2, <4>1, Updates
    <3>5. Place(c)' /\ Outcome(c)' /\ Closed(c)'
      BY <1>1, <2>1, <2>3, <3>3, <3>4, OlderGrant DEF Place, Outcome, Closed
    <3>6. Justified(c)'
      BY <1>1, <2>1, <2>3, <3>3 DEF Justified, Carries
    <3>7. Consent(call[c].req, grant') \subseteq Consent(call[c].req, grant)
      BY <1>1, <2>1, <3>1, OlderConsent DEF Call
    <3>8. StaticSecret(c)' = StaticSecret(c)
      BY <3>3 DEF StaticSecret
    <3>9. ASSUME call[c].doc \in Grant
          PROVE  /\ GrantBinds(c)' => GrantBinds(c)
                 /\ call'[c].doc.user = call[c].doc.user
                 /\ call'[c].doc.scope = call[c].doc.scope
      <4> DEFINE g == call[c].doc
      <4>1. /\ Older(g).user = g.user /\ Older(g).scope = g.scope
            /\ Older(g).sandbox = g.sandbox /\ Older(g).sound = g.sound
            /\ Older(g).life > 0 => g.life > 0
            /\ g # None
        BY <3>9, OlderGrant, NoneAssumption
      <4>2. /\ call'[c].doc = Older(g) /\ call'[c].req.svid = call[c].req.svid
        BY <3>3
      <4>3. GrantBinds(c)' => /\ call'[c].doc.sandbox = call'[c].req.svid
                              /\ call'[c].doc.sound /\ call'[c].doc.life > 0
        BY DEF GrantBinds, GrantValid
      <4>4. GrantBinds(c) <=> /\ g # None /\ g.sandbox = call[c].req.svid
                              /\ g.sound /\ g.life > 0
        BY DEF GrantBinds, GrantValid
      <4> QED
        BY <4>1, <4>2, <4>3, <4>4
    <3>10. call[c].doc = None => ~GrantBinds(c)'
      BY <3>3 DEF GrantBinds, Older
    <3>11. call[c].doc \in Grant \union {None}
      BY <3>1 DEF Call
    <3>12. call[c].caller = "sandbox" /\ pc[c] \in {"jit", "exchange", "token"}
             => call[c].doc \in Grant
      BY <2>1 DEF Place
    <3>13. Consented(c)'
      BY <1>1, <2>1, <2>3, <3>3, <3>7, <3>8, <3>9, <3>10, <3>11, <3>12 DEF Consented
    <3> QED
      BY <3>5, <3>6, <3>13
  <2> QED
    BY <2>2, <2>3
<1> QED
  BY <1>2 DEF PlaceInv, OutcomeInv, FailClosed, Closed, ConsentInv, InjectedByConsent,
              Justified

-----------------------------------------------------------------------------
(* The theorems.                                                             *)

\* A step of one stream keeps the invariant for all.
LEMMA StreamInv ==
  ASSUME Inv, NEW c \in Stream, Gateway(c) \/ Vault(c) \/ Process(c)
  PROVE  Inv'
<1> USE DEF Inv
<1>1. TypeOK'
  BY GatewayTypes, VaultTypes, ProcessTypes
<1>2. Elsewhere(c)
  BY GatewayElsewhere, VaultElsewhere, ProcessElsewhere
<1>3. Place(c)'
  BY GatewayPlace, VaultPlace, ProcessPlace
<1>4. Outcome(c)' /\ Closed(c)'
  BY <1>1, GatewayOutcome, VaultOutcome, ProcessOutcome
<1>5. Consented(c)' /\ Justified(c)'
  BY <1>1, GatewayConsent, VaultConsent, ProcessConsent
<1>6. ASSUME NEW d \in Stream, d # c
      PROVE  /\ Place(d)' /\ Outcome(d)' /\ Closed(d)'
             /\ Consented(d)' /\ Justified(d)'
  <2>1. /\ pc'[d] = pc[d] /\ call'[d] = call[d] /\ vt'[d] = vt[d]
        /\ injected'[d] = injected[d] /\ passed'[d] = passed[d]
        /\ audit'[d] = audit[d] /\ grant' = grant /\ valid' = valid
    BY <1>2, <1>6 DEF Elsewhere, world
  <2>2. Place(d) /\ Outcome(d) /\ Closed(d) /\ Consented(d) /\ Justified(d)
    BY DEF PlaceInv, OutcomeInv, FailClosed, Closed, ConsentInv, InjectedByConsent,
           Justified
  <2>3. /\ Working(d)' = Working(d) /\ GrantBinds(d)' = GrantBinds(d)
        /\ StaticSecret(d)' = StaticSecret(d)
    BY <2>1 DEF Working, GrantBinds, StaticSecret
  <2>4. Place(d)' /\ Outcome(d)' /\ Closed(d)'
    BY <2>1, <2>2, <2>3 DEF Place, Outcome, Closed
  <2>5. Consented(d)'
    BY <2>1, <2>2, <2>3 DEF Consented
  <2>6. Justified(d)'
    BY <2>1, <2>2 DEF Justified, Carries
  <2> QED
    BY <2>4, <2>5, <2>6
<1>7. PlaceInv' /\ OutcomeInv' /\ FailClosed'
  BY <1>3, <1>4, <1>6 DEF PlaceInv, OutcomeInv, FailClosed, Closed
<1>8. ConsentInv' /\ InjectedByConsent'
  BY <1>5, <1>6 DEF ConsentInv, InjectedByConsent, Justified
<1> QED
  BY <1>1, <1>7, <1>8

\* A step of the world keeps the invariant.
LEMMA WorldInv ==
  ASSUME Inv, World
  PROVE  Inv'
<1>1. TypeOK'
  BY WorldTypes DEF Inv
<1>2. ASSUME NEW u \in Sandbox, NEW g \in Grants \union {None}, WriteGrant(u, g)
      PROVE  Inv'
  <2>1. [grant EXCEPT ![u] = g] \in [Sandbox -> Grant \union {None}]
    BY WorldAssumption, SMT DEF Inv, TypeOK
  <2>2. valid \in SUBSET SessionJwts
    BY DEF Inv, TypeOK
  <2> QED
    BY <1>1, <1>2, <2>1, <2>2, ShownInv DEF WriteGrant, Inv
<1>3. ASSUME NEW j \in SessionJwts, MintJwt(j) \/ JwtExpires(j)
      PROVE  Inv'
  <2>1. /\ grant \in [Sandbox -> Grant \union {None}]
        /\ valid \union {j} \in SUBSET SessionJwts
        /\ valid \ {j} \in SUBSET SessionJwts
    BY DEF Inv, TypeOK
  <2>2. CASE MintJwt(j)
    BY <1>1, <2>1, <2>2, ShownInv DEF MintJwt, Inv
  <2>3. CASE JwtExpires(j)
    BY <1>1, <2>1, <2>3, ShownInv DEF JwtExpires, Inv
  <2> QED
    BY <1>3, <2>2, <2>3
<1>4. CASE Tick
  BY <1>1, <1>4, TickInv DEF Inv
<1>5. CASE Revoke
  <2>1. /\ UNCHANGED <<pc, call, injected, passed, audit, grant, valid>>
        /\ vt' = [c \in Stream |-> IF vt[c] = "get" THEN "stale" ELSE vt[c]]
    BY <1>5 DEF Revoke, world
  <2>2. PlaceInv' /\ OutcomeInv' /\ FailClosed' /\ InjectedByConsent'
    BY <2>1, SMT DEF Inv, PlaceInv, Place, OutcomeInv, Outcome, FailClosed,
                     InjectedByConsent, Carries, Working
  <2>3. ASSUME NEW c \in Stream
        PROVE  Consented(c)'
    <3>1. Consented(c) /\ (vt'[c] = "done" => vt[c] = "done")
      BY <2>1 DEF Inv, ConsentInv
    <3>2. /\ Working(c)' = Working(c) /\ GrantBinds(c)' = GrantBinds(c)
          /\ StaticSecret(c)' = StaticSecret(c)
      BY <2>1 DEF Working, GrantBinds, StaticSecret
    <3> QED
      BY <2>1, <3>1, <3>2 DEF Consented
  <2> QED
    BY <1>1, <2>2, <2>3 DEF Inv, ConsentInv
<1> QED
  BY <1>2, <1>3, <1>4, <1>5 DEF World

\* The invariant.
THEOREM Invariant == Spec => []Inv
<1>1. Init => Inv
  <2>1. Init => TypeOK
    BY WorldAssumption, SMT DEF Init, TypeOK, Waits
  <2>2. Init => PlaceInv /\ OutcomeInv /\ FailClosed /\ ConsentInv /\ InjectedByConsent
    BY NoneAssumption DEF Init, PlaceInv, Place, OutcomeInv, Outcome, FailClosed,
       ConsentInv, Consented, InjectedByConsent, Carries, Working
  <2> QED
    BY <2>1, <2>2 DEF Inv
<1>2. Inv /\ [Next]_vars => Inv'
  <2>1. ASSUME Inv, UNCHANGED vars PROVE Inv'
    BY <2>1 DEF Inv, vars, client, world, TypeOK, PlaceInv, Place, OutcomeInv,
       Outcome,
       FailClosed, ConsentInv, Consented, InjectedByConsent, Carries, Working,
       GrantBinds, StaticSecret
  <2> QED
    BY <2>1, StreamInv, WorldInv DEF Next
<1> QED
  BY <1>1, <1>2, PTL DEF Spec

\* Every variable keeps its type: no stream ends up without the locals that the
\* next message or answer needs.
THEOREM TypeCorrect == Spec => []TypeOK
<1>1. Inv => TypeOK
  BY DEF Inv
<1> QED
  BY <1>1, Invariant, PTL

\* Whatever messages the gateway leaves out, a response passes only for a
\* request that carried a credential, and a denied request carries none.
THEOREM ClosedOnFailure == Spec => []FailClosed
<1>1. Inv => FailClosed
  BY DEF Inv
<1> QED
  BY <1>1, Invariant, PTL

\* A sandbox's agent gets a credential of the user who consented, for what was
\* consented to or what a session JWT of this sandbox covers - however grants
\* are rewritten, deleted and expire while its stream waits.
THEOREM ConsentRespected == Spec => []InjectedByConsent
<1>1. Inv => InjectedByConsent
  BY DEF Inv
<1> QED
  BY <1>1, Invariant, PTL

-----------------------------------------------------------------------------
(* What a user is given, and what the record says of a credential.           *)

\* Groups and session JWT of a user are enough for the tool.
Entitled(c) == call[c].caller = "user" =>
  /\ "restricted" \notin call[c].req.groups
  /\ call[c].req.tool \in Dangerous =>
       /\ "mcp-admins" \in call[c].req.groups
       /\ call[c].req.jit \in call[c].jwts
       /\ call[c].req.tool \in call[c].req.jit.tools

\* Of a stream without an SVID.
Owned(c) == call[c] # None /\ call[c].caller # "sandbox" =>
  /\ Working(c) => valid \subseteq call[c].jwts
  /\ pc[c] \in {"legs", "static"} => Entitled(c)
  /\ injected[c] # None =>
       /\ call[c].caller = "user" /\ Entitled(c)
       /\ injected[c].user = call[c].req.user /\ injected[c].kind # "write"
       /\ call[c].exchange = "success"

\* Of a sandbox's stream: whose credential it has, and which of them.
Lent(c) == call[c] # None /\ call[c].caller = "sandbox" =>
  /\ pc[c] \in {"grant", "jit", "exchange"} => call[c].what = "grant"
  /\ injected[c] # None =>
       /\ call[c].doc \in Grant /\ injected[c].user = call[c].doc.user
       /\ injected[c].kind = "write" <=> call[c].what = "write"
       /\ call[c].elevated => /\ call[c].req.jit \in call[c].jwts
                              /\ Covers(call[c].req.jit, call[c].req)

\* AuditTruthful, of one stream: nothing follows the allow entry.
Recorded(c) == call[c] # None /\ audit[c] # None /\ audit[c].decision = "allow" =>
  /\ "response" \in call[c].got
  /\ injected[c] # None /\ audit[c].user = injected[c].user
  /\ audit[c].write <=> injected[c].kind = "write"
  /\ audit[c].exchange = "success" => call[c].exchange = "success"
  /\ audit[c].elevated => /\ call[c].req.jit \in call[c].jwts
                          /\ Covers(call[c].req.jit, call[c].req)

Told(c) == Owned(c) /\ Lent(c) /\ Recorded(c)

\* A stream that is over, or whose locals and credential stay.
LEMMA OverTold ==
  ASSUME NEW c \in Stream, call'[c] = None
  PROVE  Told(c)'
BY DEF Told, Owned, Lent, Recorded

LEMMA StillTold ==
  ASSUME NEW c \in Stream, Told(c), UNCHANGED world,
         pc'[c] = pc[c], call'[c] = call[c], injected'[c] = injected[c], audit'[c] = audit[c]
  PROVE  Told(c)'
<1>1. Working(c)' = Working(c) /\ Entitled(c)' = Entitled(c)
  BY DEF Working, Entitled
<1>2. Owned(c)'
  BY <1>1 DEF Told, Owned, world
<1>3. Lent(c)'
  BY DEF Told, Lent
<1>4. Recorded(c)'
  BY DEF Told, Recorded
<1> QED
  BY <1>2, <1>3, <1>4 DEF Told

\* Before the credential there is no allow entry.
LEMMA Unrecorded ==
  ASSUME NEW c \in Stream, Told(c), call[c] # None, injected[c] = None, audit'[c] = audit[c]
  PROVE  Recorded(c)'
BY DEF Told, Recorded

\* A step without a credential, before and after: only what it waits for matters.
LEMMA WithoutCredential ==
  ASSUME NEW c \in Stream, Told(c), call[c] # None,
         injected[c] = None, injected'[c] = None, audit'[c] = audit[c],
         call'[c] # None /\ call'[c].caller # "sandbox" =>
           /\ Working(c)' => valid' \subseteq call'[c].jwts
           /\ pc'[c] \in {"legs", "static"} => Entitled(c)',
         call'[c] # None /\ call'[c].caller = "sandbox" /\ pc'[c] \in {"grant", "jit", "exchange"} =>
           call'[c].what = "grant"
  PROVE  Told(c)'
<1>1. Recorded(c)'
  BY Unrecorded
<1> QED
  BY <1>1 DEF Told, Owned, Lent

LEMMA DenyTold ==
  ASSUME TypeOK, NEW c \in Stream, Return(c)
  PROVE  Told(c)'
<1>1. call'[c] = None
  BY SMT DEF Return, TypeOK
<1> QED
  BY <1>1, OverTold

\* A message: the body comes before any credential, the response after it.
LEMMA GatewayTold ==
  ASSUME Inv, NEW c \in Stream, Told(c), Gateway(c)
  PROVE  Told(c)'
<1> TypeOK /\ Place(c) /\ Outcome(c)
  BY DEF Inv, PlaceInv, OutcomeInv
<1>k. pc[c] = "message" => call[c] \in Call /\ call[c] # None /\ ~Working(c)
  BY NoneAssumption, SMT DEF TypeOK, Place, Working
<1>0. ASSUME NEW r \in Requests, Open(c, r) PROVE Told(c)'
  <2>1. /\ pc'[c] = "message" /\ injected'[c] = None /\ audit'[c] = None
        /\ call'[c].caller = "nobody"
    BY <1>0, SMT DEF Open, Goto, TypeOK
  <2> QED
    BY <2>1 DEF Told, Owned, Lent, Recorded, Working
<1>1. CASE Close(c)
  BY <1>1, DenyTold DEF Close
<1>2. CASE HeadersRefused(c) \/ BodyRefused(c) \/ ResponseRefused(c)
  BY <1>2, DenyTold DEF HeadersRefused, BodyRefused, ResponseRefused, Deny
<1>3. CASE Headers(c)
  <2>1. /\ pc[c] = "message" /\ call[c].got = {} /\ pc' = pc
        /\ injected' = injected /\ audit' = audit
    BY <1>3 DEF Headers
  <2>2. injected[c] = None
    BY <1>k, <2>1 DEF Outcome
  <2>3. ~Working(c)' /\ pc'[c] = "message"
    BY <2>1 DEF Working
  <2> QED
    BY <1>k, <2>1, <2>2, <2>3, WithoutCredential
<1>4. CASE Body(c)
  <2>1. /\ pc[c] = "message" /\ call[c].got \subseteq {"headers"}
        /\ injected' = injected /\ audit' = audit /\ valid' = valid
    BY <1>4 DEF Body, world
  <2>2. injected[c] = None
    BY <1>k, <2>1 DEF Outcome
  <2>3. call'[c].what = "grant" /\ call'[c].jwts = valid
    BY <1>4, <1>k, <2>1, SMT DEF Body, TypeOK, Call
  <2>4. pc'[c] \in {"grant", "jit"}
    BY <1>4, SMT DEF Body, Goto, TypeOK
  <2> QED
    BY <1>k, <2>1, <2>2, <2>3, <2>4, WithoutCredential
<1>5. CASE Response(c)
  <2>1. /\ pc[c] = "message" /\ pc' = pc /\ injected' = injected /\ valid' = valid
        /\ injected[c] # None
    BY <1>5 DEF Response, Delegated, world
  <2>2. /\ call'[c] = [call[c] EXCEPT !.got = call[c].got \union {"response"}]
        /\ audit'[c] = Allowed(c)
    BY <1>5, SMT DEF Response, TypeOK
  <2>3. /\ call'[c].req = call[c].req /\ call'[c].caller = call[c].caller
        /\ call'[c].doc = call[c].doc /\ call'[c].elevated = call[c].elevated
        /\ call'[c].exchange = call[c].exchange /\ call'[c].what = call[c].what
        /\ call'[c].jwts = call[c].jwts /\ "response" \in call'[c].got
    BY <1>k, <2>1, <2>2, SMT DEF Call
  <2>4. Owned(c)' /\ Lent(c)'
    <3>1. ~Working(c) /\ ~Working(c)' /\ Entitled(c)' = Entitled(c)
      BY <2>1, <2>3 DEF Working, Entitled
    <3>2. call[c] # None
      BY <1>k, <2>1
    <3> QED
      BY <2>1, <2>3, <3>1, <3>2 DEF Told, Owned, Lent
  <2>5. Recorded(c)'
    <3>1. CASE call[c].caller = "sandbox"
      <4>1. /\ call[c].doc \in Grant /\ injected[c].user = call[c].doc.user
            /\ injected[c].kind = "write" <=> call[c].what = "write"
            /\ call[c].elevated => /\ call[c].req.jit \in call[c].jwts
                                   /\ Covers(call[c].req.jit, call[c].req)
        BY <1>k, <2>1, <3>1 DEF Told, Lent
      <4>2. GrantUser(c) = call[c].doc.user
        BY <4>1, NoneAssumption DEF GrantUser
      <4>3. /\ Allowed(c).user = call[c].doc.user
            /\ Allowed(c).elevated = call[c].elevated
            /\ Allowed(c).exchange = call[c].exchange
            /\ Allowed(c).write = WriteIdentity(c)
        BY <3>1, <4>2, SMT DEF Allowed, ExchangeResult
      <4>4. Allowed(c).write <=> injected[c].kind = "write"
        BY <4>1, <4>3 DEF WriteIdentity
      <4> QED
        BY <2>1, <2>2, <2>3, <4>1, <4>3, <4>4 DEF Recorded
    <3>2. CASE call[c].caller # "sandbox"
      <4>1. /\ injected[c].user = call[c].req.user /\ injected[c].kind # "write"
            /\ call[c].exchange = "success"
        BY <1>k, <2>1, <3>2 DEF Told, Owned
      <4>2. /\ Allowed(c).user = call[c].req.user
            /\ Allowed(c).elevated = FALSE /\ Allowed(c).write = FALSE
        BY <3>2, SMT DEF Allowed
      <4> QED
        BY <2>1, <2>2, <2>3, <4>1, <4>2 DEF Recorded
    <3> QED
      BY <3>1, <3>2
  <2> QED
    BY <2>4, <2>5 DEF Told
<1> QED
  BY <1>0, <1>1, <1>2, <1>3, <1>4, <1>5 DEF Gateway

\* The Vault client brings at most a grant, and then there is no credential yet.
LEMMA VaultTold ==
  ASSUME Inv, NEW c \in Stream, Told(c), Vault(c)
  PROVE  Told(c)'
<1> TypeOK /\ Place(c) /\ Outcome(c)
  BY DEF Inv, PlaceInv, OutcomeInv
<1>1. CASE \/ LoggedIn(c) \/ LoginBegins(c) \/ LoginAnswered(c) \/ LoginFailed(c)
           \/ TokenRead(c) \/ FetchFailed(c)
  <2>1. UNCHANGED <<pc, call, injected, audit, world>>
    BY <1>1 DEF LoggedIn, LoginBegins, LoginAnswered, LoginFailed, TokenRead, FetchFailed, Step
  <2> QED
    BY <2>1, StillTold
<1>2. CASE Fetched(c)
  <2>1. /\ vt[c] = "get" /\ pc' = pc /\ injected' = injected /\ audit' = audit
        /\ valid' = valid
    BY <1>2 DEF Fetched, Step, world
  <2>2. Working(c) /\ Working(c)' /\ call[c] \in Call /\ call[c] # None
    BY <2>1, SMT DEF Place, Working, TypeOK
  <2>3. injected[c] = None
    BY <2>2 DEF Outcome
  <2>4. /\ call'[c].req = call[c].req /\ call'[c].caller = call[c].caller
        /\ call'[c].what = call[c].what /\ call'[c].jwts = call[c].jwts
    BY <1>2, <2>2, SMT DEF Fetched, TypeOK, Call
  <2>5. Entitled(c)' = Entitled(c)
    BY <2>4 DEF Entitled
  <2>6. call[c].caller # "sandbox" =>
          /\ valid \subseteq call[c].jwts
          /\ pc[c] \in {"legs", "static"} => Entitled(c)
    BY <2>2 DEF Told, Owned
  <2>7. call[c].caller = "sandbox" /\ pc[c] \in {"grant", "jit", "exchange"} =>
          call[c].what = "grant"
    BY <2>2 DEF Told, Lent
  <2> QED
    BY <2>1, <2>2, <2>3, <2>4, <2>5, <2>6, <2>7, WithoutCredential
<1> QED
  BY <1>1, <1>2 DEF Vault

\* A stream that works has no credential, and none of its steps makes an allow entry.
LEMMA WorkingTold ==
  ASSUME Inv, NEW c \in Stream, Told(c), Working(c)
  PROVE  /\ call[c] \in Call /\ call[c] # None /\ injected[c] = None
         /\ call[c].caller # "sandbox" =>
              /\ valid \subseteq call[c].jwts
              /\ pc[c] \in {"legs", "static"} => Entitled(c)
         /\ call[c].caller = "sandbox" /\ pc[c] \in {"grant", "jit", "exchange"} =>
              call[c].what = "grant"
<1> Place(c) /\ Outcome(c) /\ TypeOK
  BY DEF Inv, PlaceInv, OutcomeInv
<1>1. call[c] \in Call /\ call[c] # None
  BY SMT DEF Place, Working, TypeOK
<1>2. injected[c] = None
  BY DEF Outcome
<1> QED
  BY <1>1, <1>2 DEF Told, Owned, Lent

\* The credential of a sandbox's stream.
LEMMA LendTold ==
  ASSUME Inv, NEW c \in Stream, Told(c), pc[c] \in {"exchange", "token"},
         NEW kind \in {"jwt", call[c].what}, pc[c] = "exchange" => kind = "jwt",
         kind = "jwt" => call[c].what # "write",
         injected'[c] = [kind |-> kind, user |-> call[c].doc.user],
         pc'[c] = "message", audit'[c] = audit[c],
         call'[c].req = call[c].req, call'[c].caller = call[c].caller,
         call'[c].jwts = call[c].jwts, call'[c].doc = call[c].doc,
         call'[c].elevated = call[c].elevated, call'[c].what = call[c].what
  PROVE  Told(c)'
<1> Place(c) /\ TypeOK /\ Consented(c)
  BY DEF Inv, PlaceInv, ConsentInv
<1>1. /\ call[c] # None /\ call[c].caller = "sandbox" /\ call[c].doc \in Grant
      /\ injected[c] = None
  BY WorkingTold DEF Place, Working
<1>2. call[c].elevated =>
        call[c].req.jit \in call[c].jwts /\ Covers(call[c].req.jit, call[c].req)
  BY <1>1 DEF Consented
<1>3. injected'[c].user = call[c].doc.user /\ injected'[c].kind = kind
  BY SMT
<1>4. kind = "write" <=> call[c].what = "write"
  OBVIOUS
<1>5. Lent(c)'
  BY <1>1, <1>2, <1>3, <1>4 DEF Lent
<1>6. Recorded(c)'
  BY <1>1, Unrecorded
<1> QED
  BY <1>1, <1>5, <1>6 DEF Told, Owned

\* The credential of a user.
LEMMA GiveTold ==
  ASSUME Inv, NEW c \in Stream, Told(c), pc[c] \in {"legs", "static"},
         call[c].exchange = "success", NEW kind \in {"jwt", "read"},
         injected'[c] = [kind |-> kind, user |-> call[c].req.user],
         pc'[c] = "message", audit'[c] = audit[c], call'[c] = call[c]
  PROVE  Told(c)'
<1> Place(c) /\ TypeOK
  BY DEF Inv, PlaceInv
<1>1. call[c] \in Call /\ call[c] # None /\ injected[c] = None /\ call[c].caller # "sandbox"
      /\ Entitled(c)
  BY WorkingTold DEF Place, Working
<1>2. call[c].caller = "user"
  BY <1>1, SMT DEF Place, Call
<1>3. injected'[c].user = call[c].req.user /\ injected'[c].kind # "write"
  BY SMT
<1>4. ~Working(c)' /\ Entitled(c)' = Entitled(c)
  BY DEF Working, Entitled
<1>5. Owned(c)'
  BY <1>1, <1>2, <1>3, <1>4 DEF Owned
<1>6. Recorded(c)'
  BY <1>1, Unrecorded
<1> QED
  BY <1>1, <1>5, <1>6 DEF Told, Lent

\* On its way to the credential.
LEMMA OnTheWay ==
  ASSUME Inv, NEW c \in Stream, Told(c), Working(c),
         UNCHANGED <<injected, audit, world>>,
         call'[c].req = call[c].req, call'[c].caller = call[c].caller,
         call'[c].jwts = call[c].jwts,
         call[c].caller = "sandbox" /\ pc'[c] \in {"grant", "jit", "exchange"} =>
           call'[c].what = "grant",
         pc'[c] \in {"legs", "static"} /\ pc[c] \notin {"legs", "static"} => Entitled(c)
  PROVE  Told(c)'
<1>1. /\ call[c] # None /\ injected[c] = None
      /\ call[c].caller # "sandbox" =>
              /\ valid \subseteq call[c].jwts
              /\ pc[c] \in {"legs", "static"} => Entitled(c)
  BY WorkingTold
<1>2. Entitled(c)' = Entitled(c)
  BY DEF Entitled
<1> QED
  BY <1>1, <1>2, WithoutCredential DEF world

\* What is decided is decided on what was verified.
LEMMA ProcessTold ==
  ASSUME Inv, NEW c \in Stream, Told(c), Process(c)
  PROVE  Told(c)'
<1> TypeOK /\ Place(c)
  BY DEF Inv, PlaceInv
<1>w. Working(c)
  BY DEF Process, GrantFailed, GrantRefused, GrantAccepted, SandboxPermitted, SandboxDenied,
         Impersonated, ImpersonatedPrivileged, NotImpersonated, TokenFetched, TokenFailed,
         UserPermitted, UserDenied, Exchanged, FallBack, Join, StaticFetched, Working
<1>0. /\ call[c] \in Call /\ call[c] # None /\ injected[c] = None
      /\ call[c].caller # "sandbox" => valid \subseteq call[c].jwts
      /\ call[c].caller = "sandbox" /\ pc[c] \in {"grant", "jit", "exchange"} =>
              call[c].what = "grant"
  BY <1>w, WorkingTold
<1>1. CASE \/ GrantFailed(c) \/ GrantRefused(c) \/ SandboxDenied(c)
           \/ ImpersonatedPrivileged(c) \/ TokenFailed(c) \/ UserDenied(c)
  BY <1>1, DenyTold DEF GrantFailed, GrantRefused, SandboxDenied, ImpersonatedPrivileged,
                        TokenFailed, UserDenied, Deny
<1>2. CASE GrantAccepted(c)
  <2>1. /\ pc[c] = "grant" /\ call' = call /\ UNCHANGED <<injected, audit, world>>
        /\ pc'[c] = "jit"
    BY <1>2, SMT DEF GrantAccepted, Goto, TypeOK
  <2> QED
    BY <1>0, <1>w, <2>1, OnTheWay
<1>3. CASE SandboxPermitted(c)
  <2>1. /\ pc[c] = "jit" /\ call[c].caller = "sandbox" /\ UNCHANGED <<injected, audit, world>>
        /\ pc'[c] = "exchange"
    <3>1. /\ pc[c] = "jit" /\ call[c].caller = "sandbox" /\ UNCHANGED <<injected, audit, world>>
          /\ Goto(c, "exchange")
      BY <1>3, Zenon DEF SandboxPermitted
    <3> QED
      BY <3>1, SMT DEF Goto, TypeOK
  <2>2. /\ call'[c].req = call[c].req /\ call'[c].caller = call[c].caller
        /\ call'[c].jwts = call[c].jwts /\ call'[c].what = call[c].what
    <3>1. PICK js \in Verifiable(c) :
            call' = [call EXCEPT ![c] = [call[c] EXCEPT
                       !.elevated = Elevated(c, js), !.exchange = "call"]]
      BY <1>3 DEF SandboxPermitted
    <3>2. PICK e \in BOOLEAN : e = Elevated(c, js)
      BY DEF Elevated
    <3>3. call'[c] = [call[c] EXCEPT !.elevated = e, !.exchange = "call"]
      BY <1>0, <3>1, <3>2, SMT DEF TypeOK
    <3> QED
      BY <1>0, <3>3, SMT DEF Call
  <2> QED
    BY <1>0, <1>w, <2>1, <2>2, OnTheWay
<1>4. ASSUME NEW x \in {"success", "failed"}, pc[c] = "exchange", ToStatic(c, x),
             UNCHANGED <<client, world>>
      PROVE  Told(c)'
  <2>1. pc'[c] = "token" /\ UNCHANGED <<injected, audit, world>>
    BY <1>4, SMT DEF ToStatic, Goto, TypeOK
  <2>2. /\ call'[c].req = call[c].req /\ call'[c].caller = call[c].caller
        /\ call'[c].jwts = call[c].jwts
    BY <1>0, <1>4, SMT DEF ToStatic, TypeOK, Call
  <2> QED
    BY <1>w, <2>1, <2>2, OnTheWay
<1>5. CASE Impersonated(c)
  <2>1. CASE ToStatic(c, "success")
    BY <1>4, <1>5, <2>1 DEF Impersonated
  <2>2. CASE /\ call' = [call EXCEPT ![c].exchange = "success"]
             /\ Inject(c, "jwt", call[c].doc.user)
    <3>1. /\ pc[c] = "exchange" /\ pc'[c] = "message" /\ audit' = audit
          /\ injected'[c] = [kind |-> "jwt", user |-> call[c].doc.user]
      BY <1>5, <2>2, SMT DEF Impersonated, Inject, Goto, TypeOK
    <3>2. /\ call'[c].req = call[c].req /\ call'[c].caller = call[c].caller
          /\ call'[c].jwts = call[c].jwts /\ call'[c].doc = call[c].doc
          /\ call'[c].elevated = call[c].elevated /\ call'[c].what = call[c].what
      BY <1>0, <2>2, SMT DEF TypeOK, Call
    <3>3. call[c].what = "grant"
      BY <1>0, <3>1 DEF Place
    <3> QED
      BY <3>1, <3>2, <3>3, LendTold
  <2> QED
    BY <1>5, <2>1, <2>2 DEF Impersonated
<1>6. CASE NotImpersonated(c)
  BY <1>4, <1>6, DenyTold DEF NotImpersonated, Deny
<1>7. CASE TokenFetched(c)
  <2>1. CASE Inject(c, call[c].what, call[c].doc.user) /\ UNCHANGED call
    <3>1. /\ pc[c] = "token" /\ pc'[c] = "message" /\ audit' = audit
          /\ injected'[c] = [kind |-> call[c].what, user |-> call[c].doc.user]
      BY <1>7, <2>1, SMT DEF TokenFetched, Inject, Goto, TypeOK
    <3>2. call[c].what \in {"read", "write"}
      BY <3>1 DEF Place
    <3> QED
      BY <2>1, <3>1, <3>2, LendTold
  <2>2. CASE Deny(c)
    BY <2>2, DenyTold DEF Deny
  <2> QED
    BY <1>7, <2>1, <2>2 DEF TokenFetched
<1>8. CASE UserPermitted(c)
  <2>1. /\ pc[c] = "jit" /\ call[c].caller # "sandbox" /\ UNCHANGED <<injected, audit, world>>
    BY <1>8 DEF UserPermitted
  <2>2. /\ call'[c].req = call[c].req /\ call'[c].caller = call[c].caller
        /\ call'[c].jwts = call[c].jwts
    BY <1>0, <1>8, SMT DEF UserPermitted, TypeOK, Call
  <2>3. Entitled(c)
    <3>1. PICK js \in Verifiable(c) : UserMay(c, js)
      BY <1>8 DEF UserPermitted
    <3>2. SUFFICES ASSUME call[c].caller = "user" PROVE Entitled(c)
      BY DEF Entitled
    <3>3. js \subseteq valid /\ js \subseteq {call[c].req.jit}
      BY <3>1 DEF Verifiable
    <3>4. Decide(call[c].req.groups, call[c].req.tool, UNION {j.tools : j \in js})
      BY <3>1, <3>2 DEF UserMay
    <3>5. ASSUME call[c].req.tool \in Dangerous
          PROVE  /\ "mcp-admins" \in call[c].req.groups
                 /\ call[c].req.tool \in UNION {j.tools : j \in js}
      <4>1. call[c].req.tool # None
        BY <3>5, NoneAssumption, WorldAssumption
      <4> QED
        BY <3>4, <3>5, <4>1 DEF Decide
    <3>6. ASSUME call[c].req.tool \in Dangerous
          PROVE  call[c].req.jit \in call[c].jwts /\ call[c].req.tool \in call[c].req.jit.tools
      <4>1. PICK j \in js : call[c].req.tool \in j.tools
        BY <3>5, <3>6
      <4>2. j = call[c].req.jit /\ j \in valid
        BY <3>3, <4>1
      <4> QED
        BY <1>0, <2>1, <4>1, <4>2
    <3> QED
      BY <3>4, <3>5, <3>6 DEF Entitled, Decide
  <2> QED
    BY <1>w, <2>1, <2>2, <2>3, OnTheWay
<1>9. CASE Exchanged(c)
  <2>1. pc[c] = "legs" /\ pc' = pc /\ UNCHANGED <<injected, audit, world>>
    BY <1>9 DEF Exchanged
  <2>2. /\ call'[c].req = call[c].req /\ call'[c].caller = call[c].caller
        /\ call'[c].jwts = call[c].jwts
    BY <1>0, <1>9, SMT DEF Exchanged, TypeOK, Call
  <2> QED
    BY <1>w, <2>1, <2>2, OnTheWay
<1>10. CASE FallBack(c)
  <2>1. pc[c] = "legs" /\ pc' = pc /\ UNCHANGED <<injected, audit, world>>
    BY <1>10 DEF FallBack
  <2>2. /\ call'[c].req = call[c].req /\ call'[c].caller = call[c].caller
        /\ call'[c].jwts = call[c].jwts
    BY <1>0, <1>10, SMT DEF FallBack, TypeOK, Call
  <2> QED
    BY <1>w, <2>1, <2>2, OnTheWay
<1>11. CASE Join(c)
  <2>1. CASE /\ BothLegs(c) /\ Goto(c, "static") /\ call' = [call EXCEPT ![c].what = "read"]
             /\ UNCHANGED <<injected, passed, audit>>
    <3>1. pc[c] = "legs" /\ pc'[c] = "static" /\ UNCHANGED <<injected, audit, world>>
      BY <1>11, <2>1, SMT DEF Join, Goto, TypeOK
    <3>2. /\ call'[c].req = call[c].req /\ call'[c].caller = call[c].caller
          /\ call'[c].jwts = call[c].jwts
      BY <1>0, <2>1, SMT DEF TypeOK, Call
    <3> QED
      BY <1>w, <3>1, <3>2, OnTheWay
  <2>2. CASE BothLegs(c) /\ Inject(c, "jwt", call[c].req.user) /\ UNCHANGED call
    <3>1. /\ pc[c] = "legs" /\ pc'[c] = "message" /\ audit' = audit
          /\ injected'[c] = [kind |-> "jwt", user |-> call[c].req.user]
          /\ call[c].exchange = "success"
      BY <1>11, <2>2, SMT DEF Join, Inject, Goto, TypeOK, BothLegs
    <3> QED
      BY <2>2, <3>1, GiveTold
  <2>3. CASE Deny(c)
    BY <2>3, DenyTold DEF Deny
  <2> QED
    BY <1>11, <2>1, <2>2, <2>3 DEF Join
<1>12. CASE StaticFetched(c)
  <2>1. CASE Inject(c, "read", call[c].req.user) /\ UNCHANGED call
    <3>1. /\ pc[c] = "static" /\ pc'[c] = "message" /\ audit' = audit
          /\ injected'[c] = [kind |-> "read", user |-> call[c].req.user]
      BY <1>12, <2>1, SMT DEF StaticFetched, Inject, Goto, TypeOK
    <3>2. call[c].exchange = "success"
      BY <3>1 DEF Place
    <3> QED
      BY <2>1, <3>1, <3>2, GiveTold
  <2>2. CASE Deny(c)
    BY <2>2, DenyTold DEF Deny
  <2> QED
    BY <1>12, <2>1, <2>2 DEF StaticFetched
<1> QED
  BY <1>1, <1>2, <1>3, <1>5, <1>6, <1>7, <1>8, <1>9, <1>10, <1>11, <1>12 DEF Process

\* What a stream could have seen only grows.
LEMMA ShownTold ==
  ASSUME Inv, NEW c \in Stream, Told(c), NEW g, NEW js \in SUBSET SessionJwts, Shown(g, js)
  PROVE  Told(c)'
<1> TypeOK /\ Place(c)
  BY DEF Inv, PlaceInv
<1>1. grant' = g /\ valid' = js /\ UNCHANGED <<pc, injected, audit>>
  BY DEF Shown
<1>2. CASE ~Working(c)
  <2>1. call'[c] = call[c] /\ ~Working(c)' /\ Entitled(c)' = Entitled(c)
    BY <1>1, <1>2 DEF Shown, Working, Entitled
  <2> QED
    BY <1>1, <1>2, <2>1 DEF Told, Owned, Lent, Recorded
<1>3. CASE Working(c)
  <2>1. /\ call[c] \in Call /\ call[c] # None /\ injected[c] = None
        /\ call[c].caller # "sandbox" /\ pc[c] \in {"legs", "static"} => Entitled(c)
        /\ call[c].caller = "sandbox" /\ pc[c] \in {"grant", "jit", "exchange"} =>
             call[c].what = "grant"
    BY <1>3, WorkingTold
  <2>2. call'[c] = [call[c] EXCEPT !.consents = @ \union Consent(call[c].req, g),
                                   !.jwts = @ \union js]
    BY <1>3 DEF Shown, Working
  <2>3. /\ call'[c].req = call[c].req /\ call'[c].caller = call[c].caller
        /\ call'[c].what = call[c].what /\ call'[c].jwts = call[c].jwts \union js
    BY <2>1, <2>2, SMT DEF Call
  <2>4. Entitled(c) => Entitled(c)'
    BY <2>3 DEF Entitled
  <2> QED
    BY <1>1, <2>1, <2>3, <2>4, WithoutCredential
<1> QED
  BY <1>2, <1>3

\* A grant that ages is the same user's.
LEMMA TickTold ==
  ASSUME Inv, NEW c \in Stream, Told(c), Tick
  PROVE  Told(c)'
<1> TypeOK
  BY DEF Inv
<1>1. UNCHANGED <<pc, injected, audit, valid>>
  BY DEF Tick
<1>2. call'[c] = IF call[c] = None THEN None ELSE [call[c] EXCEPT !.doc = Older(call[c].doc)]
  BY DEF Tick
<1>3. CASE call[c] = None
  BY <1>2, <1>3, OverTold
<1>4. CASE call[c] # None
  <2>1. call[c] \in Call
    BY <1>4 DEF TypeOK
  <2>2. /\ call'[c].req = call[c].req /\ call'[c].caller = call[c].caller
        /\ call'[c].jwts = call[c].jwts /\ call'[c].elevated = call[c].elevated
        /\ call'[c].exchange = call[c].exchange /\ call'[c].what = call[c].what
        /\ call'[c].got = call[c].got /\ call'[c].doc = Older(call[c].doc)
    BY <1>2, <1>4, <2>1, SMT DEF Call
  <2>3. call[c].doc \in Grant =>
          call'[c].doc \in Grant /\ call'[c].doc.user = call[c].doc.user
    BY <2>2, OlderGrant
  <2>4. Working(c)' = Working(c) /\ Entitled(c)' = Entitled(c)
    BY <1>1, <2>2 DEF Working, Entitled
  <2>5. Owned(c)'
    BY <1>1, <1>4, <2>2, <2>4 DEF Told, Owned
  <2>6. Lent(c)'
    BY <1>1, <1>4, <2>2, <2>3 DEF Told, Lent
  <2>7. Recorded(c)'
    BY <1>1, <1>4, <2>2 DEF Told, Recorded
  <2> QED
    BY <2>5, <2>6, <2>7 DEF Told
<1> QED
  BY <1>3, <1>4

\* Every step keeps what is told of every stream.
LEMMA NextTold ==
  ASSUME Inv, \A c \in Stream : Told(c), [Next]_vars
  PROVE  \A c \in Stream : Told(c)'
<1> SUFFICES ASSUME NEW c \in Stream PROVE Told(c)'
  OBVIOUS
<1>1. Told(c)
  OBVIOUS
<1>2. ASSUME NEW d \in Stream, Gateway(d) \/ Vault(d) \/ Process(d)
      PROVE  Told(c)'
  <2>1. CASE c = d
    BY <1>1, <1>2, <2>1, GatewayTold, VaultTold, ProcessTold
  <2>2. CASE c # d
    <3>1. Elsewhere(d)
      BY <1>2, GatewayElsewhere, VaultElsewhere, ProcessElsewhere DEF Inv
    <3>2. /\ pc'[c] = pc[c] /\ call'[c] = call[c] /\ injected'[c] = injected[c]
          /\ audit'[c] = audit[c] /\ UNCHANGED world
      BY <2>2, <3>1 DEF Elsewhere
    <3> QED
      BY <1>1, <3>2, StillTold
  <2> QED
    BY <2>1, <2>2
<1>3. CASE World
  <2>1. /\ \A j \in SessionJwts : valid \union {j} \in SUBSET SessionJwts
        /\ \A j \in SessionJwts : valid \ {j} \in SUBSET SessionJwts
        /\ valid \in SUBSET SessionJwts
    BY DEF Inv, TypeOK
  <2>2. ASSUME NEW u \in Sandbox, NEW g \in Grants \union {None}, WriteGrant(u, g)
        PROVE  Told(c)'
    BY <1>1, <2>1, <2>2, ShownTold DEF WriteGrant
  <2>3. ASSUME NEW j \in SessionJwts, MintJwt(j) \/ JwtExpires(j)
        PROVE  Told(c)'
    BY <1>1, <2>1, <2>3, ShownTold DEF MintJwt, JwtExpires
  <2>4. CASE Tick
    BY <1>1, <2>4, TickTold
  <2>5. CASE Revoke
    BY <1>1, <2>5, StillTold DEF Revoke
  <2> QED
    BY <1>3, <2>2, <2>3, <2>4, <2>5 DEF World
<1>4. CASE UNCHANGED vars
  BY <1>1, <1>4, StillTold DEF vars
<1> QED
  BY <1>2, <1>3, <1>4 DEF Next

\* What is told of the streams holds throughout.
THEOREM AllTold == Spec => [](\A c \in Stream : Told(c))
<1>1. Init => \A c \in Stream : Told(c)
  BY DEF Init, Told, Owned, Lent, Recorded
<1>2. Inv /\ (\A c \in Stream : Told(c)) /\ [Next]_vars => (\A c \in Stream : Told(c))'
  BY NextTold
<1> QED
  BY <1>1, <1>2, Invariant, PTL DEF Spec

\* A user is given no credential but their own, and for a dangerous tool only as an
\* administrator with a session JWT that covers it: runUserPath injects after both legs
\* succeeded, and only what rbac.Decide let through.
THEOREM UserServed == Spec => []InjectedForUser
<1>1. (\A c \in Stream : Told(c)) => InjectedForUser
  BY DEF Told, Owned, Entitled, InjectedForUser, Carries
<1> QED
  BY <1>1, AllTold, PTL

\* The allow entry, written when the response's headers come, tells whose credential
\* went out, under which identity and by which elevation, as it was when the request did.
THEOREM AuditIsTruthful == Spec => []AuditTruthful
<1>1. (\A c \in Stream : Told(c)) => AuditTruthful
  BY DEF Told, Recorded, AuditTruthful
<1> QED
  BY <1>1, AllTold, PTL
=============================================================================
