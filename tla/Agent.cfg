\* A turn with tools, agentic builds, the conversation and the files.
CONSTANTS
  read = read  write = write  commit = commit  done = done  f = f
  b1 = b1  b2 = b2  w1 = w1  w2 = w2  p1 = p1  p2 = p2  k1 = k1
  t1 = t1  t2 = t2
  Tools <- MCTools
  NoTool = NoTool
  ToolPaths <- MCFile
  Resources <- MCResources
  Completing <- MCCompleting
  MaxCalls = 3
  MaxDepth = 2
  RetryLimit = 2
  Builds <- MCBuilds
  MaxQueue = 2
  Writers <- MCWriters
  CompactAt = 3
  Preserve = 1
  MaxMessages = 5
  Paths <- MCPaths
  MaxSaves = 2
  Syncs <- MCSyncs
  MaxVersion = 2
  MaxTrees = 2
  DebugTurns <- MCDebugTurns
  NoTurn = NoTurn
  MaxBatches = 2
SPECIFICATION AgentSpec
INVARIANTS AgentTypeOK BatchOrder AnsweredContext   DebugKnown
PROPERTIES TurnEnds QueueServed WaitsEnd
CHECK_DEADLOCK FALSE
