\* The final phase is planned by each build after the first.
CONSTANTS
  b1 = b1  b2 = b2  t1 = t1  t2 = t2  r1 = r1  r2 = r2  n1 = n1  n2 = n2
  Builds <- SingleBuild
  Turns <- OneTurn
  Requests <- TwoRequests
  Names <- OneName
  InitialName = n1
  MaxPhases = 1
  Cloned <- MCCloned
  Recharge = 2
  None = None
SPECIFICATION Spec
INVARIANT FinalPhaseOnce
