\* A caller gives up and deploys again while its first loop still runs.
CONSTANTS
  c1 = c1  c2 = c2  l1 = l1  l2 = l2  a1 = a1  a2 = a2  f1 = f1
  Callers <- OneCaller
  Loops <- MCLoops
  Attempts <- MCAttempts
  Files <- MCFiles
  Requests <- WriteOne
  Pool = 7
  ResetEvery = 2
  UsesAiProxy = FALSE
  HasSetup = FALSE
  MaxDisturb = 2
  MaxChecks = 1
  Monitor = Monitor
  None = None
SPECIFICATION Spec
SYMMETRY Symmetry
INVARIANTS TypeOK ClientMatchesSession OneAwaitedAttempt OwnerHoldsPromise InstanceInSession
