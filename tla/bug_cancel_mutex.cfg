SPECIFICATION SyncSpec
CONSTANTS
  MaxThreads = 3
  MaxTid = 3
  Priorities = {0}
  Policy = "RR"
  MainCalls = {"create", "yield", "sync", "init", "cancel"}
  ThreadCalls = {"yield", "sync", "lock"}
  WqCapacity = 2
  Mutexes = {"m"}
  Sems = {}
  SemMax = 0
  SemInitial = {}
  Conds = {}
INVARIANT NoLostWakeup
