\* One conversation beside the build, every command, failure and restart; two phase names.
CONSTANTS
  b1 = b1  b2 = b2  t1 = t1  t2 = t2  r1 = r1  r2 = r2  n1 = n1  n2 = n2
  Builds <- TwoBuilds
  Turns <- OneTurn
  Requests <- OneRequest
  Names <- TwoNames
  InitialName = n1
  MaxPhases = 2
  Cloned <- MCCloned
  Recharge = 2
  None = None
SPECIFICATION Spec
SYMMETRY Symmetry
INVARIANTS TypeOK OneBuild OnePhaseInProgress PhaseBudget BuildCancellable 
