--------------------------- MODULE MCExtProcStream ---------------------------
(* Small instances of ExtProcStream for TLC. *)
EXTENDS ExtProcStream

CONSTANTS u1, alice, carol, look, halt

\* alice, carol the administrator; a tool to look and a dangerous one.
Jwt(u, tools) == [sandbox |-> u, tools |-> tools]
OfAgent(u, tool, static, jwt) ==
  [svid |-> u, user |-> None, groups |-> {}, tool |-> tool, static |-> static,
   jit |-> jwt]
OfUser(user, groups, tool, static, jwt) ==
  [svid |-> None, user |-> user, groups |-> groups, tool |-> tool,
   static |-> static, jit |-> jwt]

SomeJwts == {Jwt(u1, {halt}), Jwt(None, {halt})}
SomeRequests ==
  {OfAgent(u1, look, TRUE, None),
   OfAgent(u1, halt, TRUE, Jwt(u1, {halt})),
   OfAgent(u1, halt, FALSE, Jwt(None, {halt})),
   OfAgent(u1, None, FALSE, None),
   OfUser(alice, {"mcp-users"}, look, FALSE, None),
   OfUser(alice, {"mcp-users"}, look, TRUE, None),
   OfUser(alice, {"mcp-users", "restricted"}, look, FALSE, None),
   OfUser(alice, {"mcp-users"}, halt, FALSE, Jwt(None, {halt})),
   OfUser(carol, {"mcp-admins"}, halt, TRUE, Jwt(None, {halt})),
   OfUser(carol, {"mcp-admins"}, halt, FALSE, Jwt(None, {halt})),
   OfUser(carol, {"mcp-admins"}, halt, FALSE, None)}

GrantTo(user, u, scope) ==
  [user |-> user, scope |-> scope, sandbox |-> u, sound |-> TRUE, life |-> 1]
SomeGrants == {GrantTo(alice, u1, "read-only"), GrantTo(carol, u1, "admin"),
               GrantTo(alice, None, "read-only")}

\* For two streams: a sandbox's agent and a user.
PairRequests == {OfAgent(u1, look, TRUE, None), OfUser(carol, {"mcp-admins"}, look, FALSE, None)}
PairGrants == {GrantTo(alice, u1, "read-only")}

=============================================================================
