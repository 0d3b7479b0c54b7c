SPECIFICATION Spec
CONSTANTS
  p = p  q = q  s1 = s1  s2 = s2  s3 = s3  c1 = c1  c2 = c2
  NoOrder = NoOrder
  Exit = Exit
  Prog <- MCProg
  Sequence <- MCSequence
  Programs = {p, q}
  Slices = {s1, s2, s3}
  Coordinators = {c1, c2}
  MaxFaults = 2
  MaxExits = 1
SYMMETRY Symmetric
INVARIANTS
  TypeOK
  OneUnresolvedSlice
  FillsHaveAnOwner
  ExecutedEverywhere
  PostedAfterRecorded
  ClaimHeldAtSubmission
  ProgramSummarisesSlices
  ExitsPostedInOrder
PROPERTY
  EndedProgramsStayEnded
  ImplementsOutcome
