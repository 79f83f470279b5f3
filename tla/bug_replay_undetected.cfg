SPECIFICATION RerunSpec
CONSTANTS
  MaxThreads = 2
  MaxTid = 2
  Priorities = {0}
  Policy = "RR"
  MainCalls = {"create", "yield", "join", "cancel", "shutdown", "sync"}
  ThreadCalls = {"yield", "cancel", "sync"}
  MaxCalls = 7
  Warmup = 1
  RecordTids = 3
  SameProgram = FALSE
INVARIANTS DivergenceDetected
