SPECIFICATION FairSpec
CONSTANTS
  p = p  q = q  s1 = s1  s2 = s2  s3 = s3  c1 = c1  c2 = c2
  NoOrder = NoOrder
  Exit = Exit
  Prog <- MCProg
  Sequence <- MCSequence
  Programs = {p}
  Slices = {s1, s2}
  Coordinators = {c1, c2}
  MaxFaults = 1
  MaxExits = 1
PROPERTY
  ReconcileSettles
