SPECIFICATION SyncFairSpec
CONSTANTS
  MaxThreads = 3
  MaxTid = 3
  Priorities = {0}
  Policy = "RR"
  MainCalls = {"create", "yield", "sync", "init", "lock"}
  ThreadCalls = {"yield", "sync", "lock"}
  WqCapacity = 1
  Mutexes = {"m"}
  Sems = {"x"}
  SemMax = 1
  SemInitial = {0}
  Conds = {"v"}
INVARIANTS QueuesExact MutualExclusion 
PROPERTIES ImplementsThreads  
