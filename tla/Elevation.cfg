CONSTANTS
  c1 = c1
  c2 = c2
  s1 = s1
  s2 = s2
  ana = ana
  bob = bob
  Call = {c1, c2}
  Click = {1}
  Merge = {2}
  Sandbox = {s1, s2}
  Tool = {"pods_exec", "pods_run"}
  Needs <- MCNeeds
  Edits <- MCEdits
  Operator = {ana, bob}
  Owner = ana
  Wait = 1
  Margin = 2
  Duration = 3
  None = None
SPECIFICATION Spec
CHECK_DEADLOCK FALSE
INVARIANTS ElevatedAsApproved ReuseAccepted DenyIsFinal
