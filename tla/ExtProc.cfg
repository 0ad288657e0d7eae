\* One call of each kind, the world changing under it.
SPECIFICATION Spec
CONSTANTS
  Stream = {c1}
  u1 = u1
  Sandbox = {u1}
  alice = alice
  carol = carol
  User = {alice, carol}
  look = look
  halt = halt
  Tool = {look, halt}
  ReadOnly = {look}
  Dangerous = {halt}
  Requests <- SomeRequests
  Grants <- SomeGrants
  SessionJwts <- SomeJwts
  Privileged = {carol}
  HasRead = {alice, carol}
  HasWrite = {carol}
  TokenLife = 1
  MaxLife = 1
  None = None
INVARIANTS InjectedByConsent InjectedForUser FailClosed AuditTruthful
