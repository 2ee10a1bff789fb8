\* A dev server that used up its restarts crashes after a long run.
CONSTANTS
  h1 = h1  h2 = h2  t1 = t1  u1 = u1  u2 = u2  g1 = g1  g2 = g2
  MaxSpawns = 3
  MaxRestarts = 1
  Checks <- MCChecks
  Tabs <- MCTabs
  Unlocks <- MCUnlocks
  Gets <- MCGets
  MaxMail = 2
  NoGet = NoGet
  Windows <- MCWindows
  BucketSize = 2
  CleanupEvery = 3
  Costs <- MCCosts
  MaxTime = 4
  MaxSockets = 3
  MaxSends = 2
  MaxRetries = 1
  MaxPending = 1
SPECIFICATION ServicesSpec
PROPERTY StableRunIsRestarted
CHECK_DEADLOCK FALSE
