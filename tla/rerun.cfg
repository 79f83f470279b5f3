SPECIFICATION RerunSpec
CONSTANTS
  MaxThreads = 2
  MaxTid = 2
  Priorities = {0}
  Policy = "RR"
  MainCalls = {"create", "yield", "join", "cancel", "shutdown", "sync"}
  ThreadCalls = {"yield", "cancel", "sync"}
  MaxCalls = 10
  Warmup = 1
  RecordTids = 3
  SameProgram = TRUE
INVARIANTS SameRun NoFalseDivergence
PROPERTIES ImplementsThreads
