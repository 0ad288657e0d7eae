CONSTANTS
  s1 = s1
  s2 = s2
  Shell = {s1, s2}
  Fd = {f1, f2}
  Keys <- MCKeys
  Outputs <- MCOutputs
  Resizable = {s2}
  InCap = 1
  OutCap = 1
  DownCap = 1
  None = None
SPECIFICATION FairShells
CHECK_DEADLOCK FALSE
INVARIANTS ShellInv KeysInOrder LastWords
PROPERTIES ClosesUnlessStuck
