\* Console, merges and closes race for one session; Vault fails in every way;
\* the process may restart once.  The properties and the contract.
SPECIFICATION Spec
CONSTANTS
  Session = {s1}
  Handler = {h1, h2}
  Delivery = {d1, d2, d3}
  alice = alice
  bob = bob
  narrow = narrow
  wide = wide
  User = {alice, bob}
  Scope = {narrow, wide}
  Durations = {2, 3}
  Latency = 1
  AllowSelfApproval = FALSE
  VaultOutcomes = {"ok", "fail", "lost"}
  GatewayOutcomes = {"ok"}
  MaxRestarts = 1
  Requests <- PlainOrNetworked
  None = None
SYMMETRY Symmetry
INVARIANTS OnceOnly IssuedAsApproved NeverStranded ExpiredIsClean
PROPERTIES Lifecycle ImplementsGrant
