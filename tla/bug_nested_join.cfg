SPECIFICATION Spec
CONSTANTS
  MaxThreads = 2
  MaxTid = 2
  Priorities = {0}
  Policy = "RR"
  MainCalls = {"create", "yield", "join"}
  ThreadCalls = {"create", "yield", "join", "nested_join"}
CHECK_DEADLOCK FALSE
INVARIANT SchedulerAlive
