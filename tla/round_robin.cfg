SPECIFICATION RRFairSpec
CONSTANTS
  MaxThreads = 3
  MaxTid = 3
  Priorities = {0}
  Policy = "RR"
  MainCalls = {"create", "yield", "join", "cancel", "shutdown", "sync"}
  ThreadCalls = {"create", "yield", "join", "cancel", "sync"}
INVARIANTS TypeOK SchedulerAlive RunningIsOnCpu BoundedBypass
PROPERTIES TerminalIsFinal ReadyRuns JoinReturns
