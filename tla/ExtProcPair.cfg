\* Two calls over one Vault client.
SPECIFICATION FairSpec
CONSTANTS
  Stream = {c1, c2}
  u1 = u1
  Sandbox = {u1}
  alice = alice
  carol = carol
  User = {alice, carol}
  look = look
  halt = halt
  Tool = {look, halt}
  ReadOnly = {look}
  Dangerous = {halt}
  Requests <- PairRequests
  Grants <- PairGrants
  SessionJwts = {}
  Privileged = {carol}
  HasRead = {alice, carol}
  HasWrite = {alice}
  TokenLife = 1
  MaxLife = 1
  None = None
PROPERTY
  Decided
