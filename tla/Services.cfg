\* The dev server monitor, the vault, one rate limit and one SDK connection.
CONSTANTS
  h1 = h1  h2 = h2  t1 = t1  u1 = u1  u2 = u2  g1 = g1  g2 = g2
  MaxSpawns = 3
  MaxRestarts = 1
  Checks <- MCChecks
  Tabs <- MCTabs
  Unlocks <- MCUnlocks
  Gets <- MCGets
  MaxMail = 2
  NoGet = NoGet
  Windows <- MCWindows
  BucketSize = 2
  CleanupEvery = 3
  Costs <- MCCosts
  MaxTime = 9
  MaxSockets = 5
  MaxSends = 4
  MaxRetries = 2
  MaxPending = 2
SPECIFICATION ServicesSpec
INVARIANTS ServicesTypeOK OneLiveChild RunningHasChild RestartBudget
  SessionHasSocket WaitersHavePrompt
  WindowBounded RefusalJustified
  OneSocket OpenIsTrue 
PROPERTIES RestartIsAnswered ShutdownCompletes GetsEnd Reconnects
CHECK_DEADLOCK FALSE
