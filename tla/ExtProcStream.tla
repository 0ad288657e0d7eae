----------------------------- MODULE ExtProcStream -----------------------------
(***************************************************************************)
(* ext-proc-delegation: the external processor that turns the caller's      *)
(* identity into the credential of one MCP tool call.  The gateway opens a  *)
(* stream per call and sends the request's headers, its body, and later the *)
(* response's headers - any of which its processing mode may leave out.     *)
(*                                                                         *)
(*   a sandbox's agent presents a SPIRE SVID: the consent grant of the      *)
(*     sandbox is read from Vault, a session JWT of the just-in-time        *)
(*     approver may elevate the one tool it covers, the user of the grant   *)
(*     is impersonated, and the user's token is injected                    *)
(*   a user presents a Keycloak JWT: tool RBAC, then token exchange and the *)
(*     Vault leg concurrently                                               *)
(*                                                                         *)
(* Streams run concurrently and share the Vault client, whose token is      *)
(* cached under a mutex.  Between any two calls that a stream waits for,    *)
(* the launcher may write, replace or delete the grant, time may pass, and  *)
(* Vault may revoke the client's token.                                     *)
(***************************************************************************)
EXTENDS Naturals

CONSTANTS
  Stream,         \* streams that may be open together
  Sandbox,        \* sandbox UUIDs
  User, Tool,
  ReadOnly,       \* tools with one of ReadOnlyToolPrefixes
  Dangerous,      \* tools with one of DangerousToolPrefixes
  Requests,       \* the calls that occur
  Grants,         \* the grant documents that occur
  SessionJwts,    \* the session JWTs that occur
  Privileged,     \* users whose exchanged token may name mcp-admins
  HasRead,        \* users with an entry in the secret mcp-tokens
  HasWrite,       \* users with an entry in the secret mcp-tokens-write
  TokenLife,      \* ticks the Vault client keeps a token
  MaxLife,        \* bound on the ticks a grant may have left
  None

Group == {"restricted", "mcp-admins", "mcp-users"}
Scopes == {"read-only", "read-write", "admin"}

\* A session JWT of the just-in-time approver; it may be bound to no sandbox.
SessionJwt == [sandbox : Sandbox \union {None}, tools : SUBSET Tool]

\* A call.  It carries an SVID or a user's token; tool is None for a body that
\* is no tools/call.  static: the path is one of StaticAuthPaths.
Request == [svid : Sandbox \union {None}, user : User \union {None},
            groups : SUBSET Group, tool : Tool \union {None},
            static : BOOLEAN, jit : SessionJwts \union {None}]

\* A consent grant.  sound: Validate and CheckTTLCap accept it; life: ticks
\* until created + ttl; sandbox: the UUID it names, None if none of these.
Grant == [user : User, scope : Scopes, sandbox : Sandbox \union {None},
          sound : BOOLEAN, life : 0 .. MaxLife]

Credential == [kind : {"jwt", "read", "write"}, user : User]
Entry == [decision : {"allow"}, user : User \union {None}, elevated : BOOLEAN,
          write : BOOLEAN, exchange : {"none", "success", "failed"}]
           \union [decision : {"deny"}]

ASSUME WorldAssumption ==
  /\ ReadOnly \subseteq Tool /\ Dangerous \subseteq Tool
  /\ Requests \subseteq Request
  /\ \A r \in Requests : r.svid \in Sandbox \/ r.user \in User
  /\ Grants \subseteq Grant
  /\ SessionJwts \subseteq SessionJwt
  /\ Privileged \subseteq User /\ HasRead \subseteq User /\ HasWrite \subseteq User
  /\ TokenLife \in Nat \ {0} /\ MaxLife \in Nat

\* The locals of a stream.  what: the secret that the Vault leg is after;
\* consents and jwts: what could have been seen since the body came, for the
\* properties.
Call == [req : Requests,
         got : SUBSET {"headers", "body", "response"},
         caller : {"nobody", "sandbox", "user"},
         doc : Grant \union {None},
         elevated : BOOLEAN,
         exchange : {"none", "call", "success", "failed"},
         what : {"none", "grant", "tool", "_default", "read", "write"},
         consents : SUBSET (User \X Scopes),
         jwts : SUBSET SessionJwts]

ASSUME NoneAssumption ==
  None \notin Stream \union Sandbox \union User \union Tool \union Call
                \union Grant \union SessionJwts \union Credential \union Entry

VARIABLES
  \* The streams.
  pc,       \* what it waits for: a message of the gateway, or a call's end
  call,     \* its locals, None when no stream is open
  vt,       \* how far its Vault leg is
  injected, \* the credential that was put on the request
  passed,   \* the response was let through
  audit,    \* the last audit entry
  \* The Vault client.
  token,    \* its cached token
  age,      \* ticks until it counts as expired
  mutex,    \* the stream that is logging in
  \* The world.
  grant,    \* the grant documents in Vault
  valid     \* the session JWTs that verify

client == <<token, age, mutex>>
world  == <<grant, valid>>
vars   == <<pc, call, vt, injected, passed, audit, client, world>>

Waits == {"idle", "message", "grant", "jit", "exchange", "token", "legs", "static"}

TypeOK ==
  /\ pc \in [Stream -> Waits]
  /\ call \in [Stream -> Call \union {None}]
  /\ vt \in [Stream -> {"none", "login", "auth", "lock", "get", "stale",
                         "done", "failed"}]
  /\ injected \in [Stream -> Credential \union {None}]
  /\ passed \in [Stream -> BOOLEAN]
  /\ audit \in [Stream -> Entry \union {None}]
  /\ token \in {"none", "live", "revoked"}
  /\ age \in 0 .. TokenLife
  /\ mutex \in Stream \union {None}
  /\ grant \in [Sandbox -> Grant \union {None}]
  /\ valid \subseteq SessionJwts

Init ==
  /\ pc = [c \in Stream |-> "idle"]
  /\ call = [c \in Stream |-> None]
  /\ vt = [c \in Stream |-> "none"]
  /\ injected = [c \in Stream |-> None]
  /\ passed = [c \in Stream |-> FALSE]
  /\ audit = [c \in Stream |-> None]
  /\ token = "none" /\ age = 0 /\ mutex = None
  /\ grant \in [Sandbox -> Grants \union {None}]
  /\ valid \in SUBSET SessionJwts

-----------------------------------------------------------------------------
(* What is decided, given what was read.                                     *)

UncheckedTTL(g) == g.sound
\* CheckTTLCap, Validate and CheckTTL: the grant has not expired.
GrantValid(g) == g.sound /\ g.life > 0

\* A session JWT elevates the one tool of the one sandbox it was minted for.
Covers(j, r) == j.sandbox = r.svid /\ r.tool \in j.tools

\* rbac.Decide: may somebody in these groups call the tool, given the tools of
\* a verified session JWT (none without one)?
Decide(groups, tool, jitScope) ==
  /\ "restricted" \notin groups
  /\ \/ tool = None
     \/ /\ tool \in Dangerous
        /\ "mcp-admins" \in groups
        /\ tool \in jitScope
     \/ /\ tool \in Tool \ Dangerous
        /\ \/ "mcp-admins" \in groups
           \/ "mcp-users" \in groups /\ tool \in ReadOnly

\* grant.CheckScope, and rbac.Decide for the groups that any grant's scope
\* stands for: mcp-users.
Baseline(scope, tool) ==
  /\ scope = "read-only" => tool \in ReadOnly \union {None}
  /\ Decide({"mcp-users"}, tool, {})

\* The valid consent in Vault for the sandbox of a call, as the properties
\* speak of it.
Consent(r, g) ==
  IF r.svid \in Sandbox /\ g[r.svid] # None /\ g[r.svid].sound
     /\ g[r.svid].life > 0 /\ g[r.svid].sandbox = r.svid
  THEN {<<g[r.svid].user, g[r.svid].scope>>} ELSE {}

-----------------------------------------------------------------------------
(* The stream.                                                               *)

Goto(c, place) == pc' = [pc EXCEPT ![c] = place]

\* The Vault leg begins: Login, then GET of the secret.
AskVault(c) == vt' = [vt EXCEPT ![c] = "login"]
Rest(c)     == vt' = [vt EXCEPT ![c] = "none"]

\* Process returns, and its locals are gone.
Return(c) == /\ Goto(c, "idle")
             /\ Rest(c)
             /\ call' = [call EXCEPT ![c] = None]

\* An audit entry and an immediate response.
Deny(c) == /\ audit' = [audit EXCEPT ![c] = [decision |-> "deny"]]
           /\ Return(c)
           /\ UNCHANGED <<injected, passed>>

\* The credential is put on the request, which goes on upstream.
Inject(c, kind, user) ==
  /\ injected' = [injected EXCEPT ![c] = [kind |-> kind, user |-> user]]
  /\ Goto(c, "message")
  /\ Rest(c)
  /\ UNCHANGED <<passed, audit>>

\* The gateway opens a stream: every local is new.
Open(c, r) ==
  /\ pc[c] = "idle"
  /\ Goto(c, "message")
  /\ call' = [call EXCEPT ![c] =
       [req |-> r, got |-> {}, caller |-> "nobody", doc |-> None,
        elevated |-> FALSE, exchange |-> "none", what |-> "none",
        consents |-> {}, jwts |-> {}]]
  /\ injected' = [injected EXCEPT ![c] = None]
  /\ passed' = [passed EXCEPT ![c] = FALSE]
  /\ audit' = [audit EXCEPT ![c] = None]
  /\ UNCHANGED <<vt, client, world>>

\* The stream ends, or breaks, while the gateway has nothing to say.
Close(c) ==
  /\ pc[c] = "message"
  /\ Return(c)
  /\ UNCHANGED <<injected, passed, audit, client, world>>

\* The token verifies: the caller is known.
Headers(c) ==
  /\ pc[c] = "message" /\ call[c].got = {}
  /\ call' = [call EXCEPT ![c] = [@ EXCEPT
       !.got = {"headers"},
       !.caller = IF call[c].req.svid # None THEN "sandbox" ELSE "user"]]
  /\ UNCHANGED <<pc, vt, injected, passed, audit, client, world>>

\* 401: the token does not verify.
HeadersRefused(c) ==
  /\ pc[c] = "message" /\ call[c].got = {}
  /\ Deny(c)
  /\ UNCHANGED <<client, world>>

\* An empty, oversized or malformed body.
BodyRefused(c) ==
  /\ pc[c] = "message" /\ call[c].got \subseteq {"headers"}
  /\ Deny(c)
  /\ UNCHANGED <<client, world>>

\* The body: a sandbox's grant is read; a user's session JWT is verified.
Body(c) ==
  /\ pc[c] = "message" /\ call[c].got \subseteq {"headers"}
  /\ \/ call[c].caller = "sandbox" /\ Goto(c, "grant") /\ AskVault(c)
     \/ call[c].caller # "sandbox" /\ Goto(c, "jit") /\ UNCHANGED vt
  /\ call' = [call EXCEPT ![c] = [@ EXCEPT
       !.got = call[c].got \union {"body"}, !.what = "grant",
       !.consents = Consent(call[c].req, grant), !.jwts = valid]]
  /\ UNCHANGED <<injected, passed, audit, client, world>>

-----------------------------------------------------------------------------
(* The sandbox's path.                                                       *)

GrantFailed(c) ==
  /\ pc[c] = "grant" /\ vt[c] = "failed"
  /\ Deny(c)
  /\ UNCHANGED <<client, world>>

\* The grant is there, is this sandbox's, and is valid.
GrantBinds(c) ==
  /\ call[c].doc # None
  /\ call[c].doc.sandbox = call[c].req.svid
  /\ GrantValid(call[c].doc)

GrantRefused(c) ==
  /\ pc[c] = "grant" /\ vt[c] = "done"
  /\ ~GrantBinds(c)
  /\ Deny(c)
  /\ UNCHANGED <<client, world>>

GrantAccepted(c) ==
  /\ pc[c] = "grant" /\ vt[c] = "done"
  /\ GrantBinds(c)
  /\ Goto(c, "jit")
  /\ Rest(c)
  /\ UNCHANGED <<call, injected, passed, audit, client, world>>

Unverified(c) == {{call[c].req.jit} \ {None}}
\* The session JWT if it verifies; it may not, for the key set may be out of
\* reach.
Verifiable(c) == SUBSET (valid \intersect {call[c].req.jit})

\* The tool is elevated by the verified session JWT, or meets the baseline.
Elevated(c, js) == \E j \in js : Covers(j, call[c].req)
Permitted(c, js) ==
  Elevated(c, js) \/ Baseline(call[c].doc.scope, call[c].req.tool)

SandboxPermitted(c) ==
  /\ pc[c] = "jit" /\ call[c].caller = "sandbox"
  /\ \E js \in Verifiable(c) :
       /\ Permitted(c, js)
       /\ call' = [call EXCEPT ![c] = [@ EXCEPT
            !.elevated = Elevated(c, js), !.exchange = "call"]]
  /\ Goto(c, "exchange")
  /\ UNCHANGED <<vt, injected, passed, audit, client, world>>

SandboxDenied(c) ==
  /\ pc[c] = "jit" /\ call[c].caller = "sandbox"
  /\ \E js \in Verifiable(c) : ~Permitted(c, js)
  /\ Deny(c)
  /\ UNCHANGED <<client, world>>

\* ADR-0012: elevated calls go out under the write identity.
StaticSecret(c) == IF call[c].elevated THEN "write" ELSE "read"

\* The exchange ended with result; one of the user's static tokens is fetched.
ToStatic(c, result) ==
  /\ call[c].req.static
  /\ Goto(c, "token")
  /\ AskVault(c)
  /\ call' = [call EXCEPT ![c] = [@ EXCEPT
       !.exchange = result, !.what = StaticSecret(c)]]
  /\ UNCHANGED <<injected, passed, audit>>

\* The user of the grant was impersonated: the token is the credential, unless
\* the path has static ones.
Impersonated(c) ==
  /\ pc[c] = "exchange"
  /\ \/ ToStatic(c, "success")
     \/ /\ ~call[c].req.static
        /\ call' = [call EXCEPT ![c].exchange = "success"]
        /\ Inject(c, "jwt", call[c].doc.user)
  /\ UNCHANGED <<client, world>>

\* The exchanged token names mcp-admins.
ImpersonatedPrivileged(c) ==
  /\ pc[c] = "exchange"
  /\ call[c].doc.user \in Privileged
  /\ Deny(c)
  /\ UNCHANGED <<client, world>>

\* On a static path the exchange serves the audit only.
NotImpersonated(c) ==
  /\ pc[c] = "exchange"
  /\ \/ ToStatic(c, "failed")
     \/ ~call[c].req.static /\ Deny(c)
  /\ UNCHANGED <<client, world>>

\* The user's entry in the secret, if there is one: never the read token for
\* an elevated call.
TokenFetched(c) ==
  LET user  == call[c].doc.user
      users == IF call[c].what = "write" THEN HasWrite ELSE HasRead IN
  /\ pc[c] = "token" /\ vt[c] = "done"
  /\ \/ user \in users /\ Inject(c, call[c].what, user) /\ UNCHANGED call
     \/ user \notin users /\ Deny(c)
  /\ UNCHANGED <<client, world>>

TokenFailed(c) ==
  /\ pc[c] \in {"token", "static"} /\ vt[c] = "failed"
  /\ Deny(c)
  /\ UNCHANGED <<client, world>>

-----------------------------------------------------------------------------
(* The user's path.                                                          *)

\* rbac.Decide for whoever the headers proved; without headers that is nobody.
UserMay(c, js) ==
  Decide(IF call[c].caller = "user" THEN call[c].req.groups ELSE {},
         call[c].req.tool, UNION {j.tools : j \in js})

\* Token exchange - of nothing, if nobody is known - and the Vault leg begin
\* together.
UserPermitted(c) ==
  /\ pc[c] = "jit" /\ call[c].caller # "sandbox"
  /\ \E js \in Verifiable(c) : UserMay(c, js)
  /\ Goto(c, "legs")
  /\ AskVault(c)
  /\ call' = [call EXCEPT ![c] = [@ EXCEPT
       !.exchange = IF call[c].caller = "user" THEN "call" ELSE "failed",
       !.what = IF call[c].req.tool = None THEN "_default" ELSE "tool"]]
  /\ UNCHANGED <<injected, passed, audit, client, world>>

UserDenied(c) ==
  /\ pc[c] = "jit" /\ call[c].caller # "sandbox"
  /\ \E js \in Verifiable(c) : ~UserMay(c, js)
  /\ Deny(c)
  /\ UNCHANGED <<client, world>>

Exchanged(c) ==
  /\ pc[c] = "legs" /\ call[c].exchange = "call"
  /\ \E r \in {"success", "failed"} : call' = [call EXCEPT ![c].exchange = r]
  /\ UNCHANGED <<pc, vt, injected, passed, audit, client, world>>

\* A tool without a secret of its own.
FallBack(c) ==
  /\ pc[c] = "legs" /\ vt[c] = "failed" /\ call[c].what = "tool"
  /\ AskVault(c)
  /\ call' = [call EXCEPT ![c].what = "_default"]
  /\ UNCHANGED <<pc, injected, passed, audit, client, world>>

OneLeg(c) == call[c].exchange = "success" \/ vt[c] = "done"
\* eg.Wait: both legs are over, and both succeeded.
BothLegs(c) == call[c].exchange = "success" /\ vt[c] = "done"
LegsOver(c) == /\ call[c].exchange # "call"
               /\ \/ vt[c] = "done"
                  \/ vt[c] = "failed" /\ call[c].what = "_default"

Join(c) ==
  /\ pc[c] = "legs" /\ LegsOver(c)
  /\ \/ /\ BothLegs(c) /\ call[c].req.static
        /\ Goto(c, "static")
        /\ AskVault(c)
        /\ call' = [call EXCEPT ![c].what = "read"]
        /\ UNCHANGED <<injected, passed, audit>>
     \/ /\ BothLegs(c) /\ ~call[c].req.static
        /\ Inject(c, "jwt", call[c].req.user)
        /\ UNCHANGED call
     \/ ~BothLegs(c) /\ Deny(c)
  /\ UNCHANGED <<client, world>>

StaticFetched(c) ==
  LET user == call[c].req.user IN
  /\ pc[c] = "static" /\ vt[c] = "done"
  /\ \/ user \in HasRead /\ Inject(c, "read", user) /\ UNCHANGED call
     \/ user \notin HasRead /\ Deny(c)
  /\ UNCHANGED <<client, world>>

-----------------------------------------------------------------------------
(* The response.                                                             *)

DelegatedOrNot(c) == TRUE
\* delegationDone
Delegated(c) == injected[c] # None

ClaimedSuccess(c) == "success"
\* What the final audit says of the exchange.
ExchangeResult(c) == call[c].exchange

GrantUser(c) == IF call[c].doc = None THEN None ELSE call[c].doc.user
WriteIdentity(c) == call[c].what = "write"

\* The final audit.
Allowed(c) ==
  IF call[c].caller = "sandbox"
  THEN [decision |-> "allow", user |-> GrantUser(c),
        elevated |-> call[c].elevated, write |-> WriteIdentity(c),
        exchange |-> ExchangeResult(c)]
  ELSE [decision |-> "allow", user |-> call[c].req.user, elevated |-> FALSE,
        write |-> FALSE, exchange |-> "success"]

\* The response's headers, which may be all that the gateway ever sends.
Response(c) ==
  /\ pc[c] = "message" /\ "response" \notin call[c].got
  /\ Delegated(c)
  /\ call' = [call EXCEPT ![c].got = @ \union {"response"}]
  /\ passed' = [passed EXCEPT ![c] = TRUE]
  /\ audit' = [audit EXCEPT ![c] = Allowed(c)]
  /\ UNCHANGED <<pc, vt, injected, client, world>>

ResponseRefused(c) ==
  /\ pc[c] = "message" /\ "response" \notin call[c].got
  /\ ~Delegated(c)
  /\ Deny(c)
  /\ UNCHANGED <<client, world>>

-----------------------------------------------------------------------------
(* The Vault client: Login holds the mutex while it waits for Vault.         *)

Step(c, to) == /\ vt' = [vt EXCEPT ![c] = to]
               /\ UNCHANGED <<pc, injected, passed, audit, world>>

\* The cached token will do.
LoggedIn(c) ==
  /\ vt[c] = "login" /\ mutex = None
  /\ token # "none" /\ age > 0
  /\ Step(c, "lock")
  /\ UNCHANGED <<call, client>>

LoginBegins(c) ==
  /\ vt[c] = "login" /\ mutex = None
  /\ token = "none" \/ age = 0
  /\ mutex' = c
  /\ Step(c, "auth")
  /\ UNCHANGED <<call, token, age>>

\* Cache until 80% of TTL.
CachedFor == TokenLife

LoginAnswered(c) ==
  /\ vt[c] = "auth"
  /\ token' = "live" /\ age' = CachedFor
  /\ mutex' = None
  /\ Step(c, "lock")
  /\ UNCHANGED call

StillLocked == mutex
\* defer c.mu.Unlock()
AfterFailedLogin == None

LoginFailed(c) ==
  /\ vt[c] = "auth"
  /\ mutex' = AfterFailedLogin
  /\ Step(c, "failed")
  /\ UNCHANGED <<call, token, age>>

\* The mutex is taken a second time, to read the token.
TokenRead(c) ==
  /\ vt[c] = "lock" /\ mutex = None
  /\ Step(c, IF token = "live" THEN "get" ELSE "stale")
  /\ UNCHANGED <<call, client>>

\* Vault answers the GET; a grant comes with what it says now.
Fetched(c) ==
  /\ vt[c] = "get"
  /\ call' = [call EXCEPT ![c].doc =
       IF pc[c] = "grant" THEN grant[call[c].req.svid] ELSE @]
  /\ Step(c, "done")
  /\ UNCHANGED client

FetchFailed(c) ==
  /\ vt[c] \in {"get", "stale"}
  /\ Step(c, "failed")
  /\ UNCHANGED <<call, client>>

-----------------------------------------------------------------------------
(* The world.                                                                *)

\* Every stream whose body is being processed may from now on have seen this.
Shown(g, js) ==
  /\ grant' = g
  /\ valid' = js
  /\ call' = [c \in Stream |->
       IF pc[c] \in {"idle", "message"} THEN call[c]
       ELSE [call[c] EXCEPT !.consents = @ \union Consent(call[c].req, g),
                            !.jwts = @ \union js]]
  /\ UNCHANGED <<pc, vt, injected, passed, audit, client>>

\* The launcher or the console writes a grant, or the launcher deletes it.
WriteGrant(u, g) == Shown([grant EXCEPT ![u] = g], valid)

\* The just-in-time approver mints a session JWT, or one expires.
MintJwt(j)    == j \notin valid /\ Shown(grant, valid \union {j})
JwtExpires(j) == j \in valid /\ Shown(grant, valid \ {j})

Older(g) == IF g = None THEN None
            ELSE [g EXCEPT !.life = IF @ = 0 THEN 0 ELSE @ - 1]

Tick ==
  /\ grant' = [u \in Sandbox |-> Older(grant[u])]
  /\ call' = [c \in Stream |->
       IF call[c] = None THEN None
       ELSE [call[c] EXCEPT !.doc = Older(@)]]
  /\ age' = IF age = 0 THEN 0 ELSE age - 1
  /\ UNCHANGED <<pc, vt, injected, passed, audit, token, mutex, valid>>

\* Vault revokes the client's token, and the client does not know.
Revoke ==
  /\ token = "live"
  /\ token' = "revoked"
  /\ vt' = [c \in Stream |-> IF vt[c] = "get" THEN "stale" ELSE vt[c]]
  /\ UNCHANGED <<pc, call, injected, passed, audit, age, mutex, world>>

-----------------------------------------------------------------------------
Gateway(c) == \/ \E r \in Requests : Open(c, r)
              \/ Close(c) \/ Headers(c) \/ HeadersRefused(c)
              \/ Body(c) \/ BodyRefused(c)
              \/ Response(c) \/ ResponseRefused(c)

Vault(c) == \/ LoggedIn(c) \/ LoginBegins(c) \/ LoginAnswered(c) \/ LoginFailed(c)
            \/ TokenRead(c) \/ Fetched(c) \/ FetchFailed(c)

Process(c) == \/ GrantFailed(c) \/ GrantRefused(c) \/ GrantAccepted(c)
              \/ SandboxPermitted(c) \/ SandboxDenied(c)
              \/ Impersonated(c) \/ ImpersonatedPrivileged(c)
              \/ NotImpersonated(c) \/ TokenFetched(c) \/ TokenFailed(c)
              \/ UserPermitted(c) \/ UserDenied(c) \/ Exchanged(c) \/ FallBack(c)
              \/ Join(c) \/ StaticFetched(c)

World == \/ \E u \in Sandbox, g \in Grants \union {None} : WriteGrant(u, g)
         \/ \E j \in SessionJwts : MintJwt(j) \/ JwtExpires(j)
         \/ Tick
         \/ Revoke

Next == \/ \E c \in Stream : Gateway(c) \/ Vault(c) \/ Process(c)
        \/ World

Spec == Init /\ [][Next]_vars

\* Calls end within their timeouts, and a mutex that is free again and again is
\* handed to whoever waits for it.
FairSpec == /\ Spec
            /\ \A c \in Stream : WF_vars(Process(c)) /\ SF_vars(Vault(c))

-----------------------------------------------------------------------------
(* Properties.                                                               *)

\* A stream whose request carries a credential.
Carries(c) == call[c] # None /\ injected[c] # None

\* The sandbox's agent gets a credential of the user who consented, for this
\* sandbox, by a grant that was valid at some moment since the body came - and
\* for what the baseline allows, unless a session JWT of this very sandbox that
\* was valid at such a moment covers the tool.  However the launcher rewrites or
\* deletes the grant and time passes between the stream's calls.
InjectedByConsent ==
  \A c \in Stream : Carries(c) /\ call[c].caller = "sandbox" =>
    \E k \in call[c].consents :
      /\ injected[c].user = k[1]
      /\ \/ Baseline(k[2], call[c].req.tool) /\ injected[c].kind # "write"
         \/ call[c].req.jit \in call[c].jwts /\ Covers(call[c].req.jit, call[c].req)

\* A user gets a credential of their own, never a write token, and a dangerous
\* tool takes mcp-admins and a session JWT that covers it.
InjectedForUser ==
  \A c \in Stream : Carries(c) /\ call[c].caller # "sandbox" =>
    /\ call[c].caller = "user"
    /\ injected[c].user = call[c].req.user /\ injected[c].kind # "write"
    /\ call[c].exchange = "success"
    /\ "restricted" \notin call[c].req.groups
    /\ call[c].req.tool \in Dangerous =>
         /\ "mcp-admins" \in call[c].req.groups
         /\ call[c].req.jit \in call[c].jwts
         /\ call[c].req.tool \in call[c].req.jit.tools

\* Fail closed: whatever messages the gateway leaves out, a response passes only
\* for a request that carried a credential, and a denied request carries none.
FailClosed ==
  \A c \in Stream :
    /\ passed[c] => injected[c] # None
    /\ audit[c] # None /\ audit[c].decision = "deny" => injected[c] = None

\* The allow entry names the user whose credential was used, tells the write
\* from the read identity, and overstates neither exchange nor elevation.
AuditTruthful ==
  \A c \in Stream :
    call[c] # None /\ audit[c] # None /\ audit[c].decision = "allow" =>
      /\ injected[c] # None /\ audit[c].user = injected[c].user
      /\ audit[c].write <=> injected[c].kind = "write"
      /\ audit[c].exchange = "success" => call[c].exchange = "success"
      /\ audit[c].elevated => /\ call[c].req.jit \in call[c].jwts
                              /\ Covers(call[c].req.jit, call[c].req)

\* A request that is being processed is decided in the end, whoever else waits
\* for the Vault client.
Decided == \A c \in Stream :
  pc[c] \notin {"idle", "message"} ~> pc[c] \in {"idle", "message"}

\* server.go:738 - where the exchange failed on a static path, a privileged user
\* is neutralised by the read-only pin all the same.
PrivilegedPinned ==
  \A c \in Stream :
    Carries(c) /\ call[c].caller = "sandbox" /\ call[c].exchange = "failed"
      /\ injected[c].user \in Privileged
    => Baseline("read-only", call[c].req.tool)

=============================================================================
