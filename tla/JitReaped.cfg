\* Two sessions, one of which may be decided by a merge, one reaper, a Vault and a
\* gateway that fail now and then.
SPECIFICATION FairSpec
CONSTANTS
  Session = {s1, s2}
  Handler = {h1}
  Delivery = {d1}
  alice = alice
  bob = bob
  narrow = narrow
  wide = wide
  User = {alice, bob}
  Scope = {narrow, wide}
  Durations = {2, 3}
  Latency = 1
  AllowSelfApproval = FALSE
  VaultOutcomes = {"ok", "fail"}
  GatewayOutcomes = {"ok", "fail", "lost"}
  MaxRestarts = 0
  Requests <- NetworkedOnly
  None = None
PROPERTIES
  EventuallyReaped
