SPECIFICATION Spec
CONSTANTS
  MaxThreads = 3
  MaxTid = 3
  Priorities = {0, 1}
  Policy = "PRIORITY"
  MainCalls = {"create", "yield", "join", "cancel", "shutdown", "sync"}
  ThreadCalls = {"create", "yield", "join", "cancel", "sync", "nested_join", "cancel_self", "shutdown"}
CHECK_DEADLOCK FALSE
INVARIANTS CountersExact TidsUnique ContextsExact
