SPECIFICATION SyncSpec
CONSTANTS
  MaxThreads = 3
  MaxTid = 4
  Priorities = {0}
  Policy = "RR"
  MainCalls = {"create", "yield", "join", "sync", "init", "destroy"}
  ThreadCalls = {"yield", "sync", "lock", "foreign_unlock"}
  WqCapacity = 2
  Mutexes = {"m"}
  Sems = {}
  SemMax = 0
  SemInitial = {}
  Conds = {"v"}
INVARIANTS QueuesExact MutualExclusion NoLostWakeup 
PROPERTIES EveryWakeupDelivered
