\* A check that fails during setup leaves the preview unmonitored.
CONSTANTS
  c1 = c1  c2 = c2  l1 = l1  l2 = l2  a1 = a1  a2 = a2  f1 = f1
  Callers <- OneCaller
  Loops <- MCLoops
  Attempts <- MCAttempts
  Files <- MCFiles
  Requests <- WriteOne
  Pool = 7
  ResetEvery = 2
  UsesAiProxy = FALSE
  HasSetup = TRUE
  MaxDisturb = 2
  MaxChecks = 1
  Monitor = Monitor
  None = None
SPECIFICATION Spec
PROPERTY MonitoredAfterDeploy
