SPECIFICATION SyncSpec
CONSTANTS
  MaxThreads = 2
  MaxTid = 2
  Priorities = {0}
  Policy = "RR"
  MainCalls = {"create", "yield", "sync", "init", "lock"}
  ThreadCalls = {"yield", "sync", "lock", "foreign_unlock"}
  WqCapacity = 2
  Mutexes = {"m"}
  Sems = {}
  SemMax = 0
  SemInitial = {}
  Conds = {}
INVARIANT MutualExclusion
