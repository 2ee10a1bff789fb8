\* Fair scheduling, two callers with every kind of request, one loop.
CONSTANTS
  c1 = c1  c2 = c2  l1 = l1  l2 = l2  a1 = a1  a2 = a2  f1 = f1
  Callers <- MCCallers
  Loops <- OneLoop
  Attempts <- MCAttempts
  Files <- MCFiles
  Requests <- MCRequests
  Pool = 7
  ResetEvery = 2
  UsesAiProxy = TRUE
  HasSetup = TRUE
  MaxDisturb = 1
  MaxChecks = 1
  Monitor = Monitor
  None = None
SPECIFICATION FairSpec
INVARIANT SuccessDeliversFiles
PROPERTIES  JoinersReturn
