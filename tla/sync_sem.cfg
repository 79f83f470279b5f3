SPECIFICATION SyncSpec
CONSTANTS
  MaxThreads = 3
  MaxTid = 4
  Priorities = {0}
  Policy = "RR"
  MainCalls = {"create", "yield", "join", "sync", "init", "destroy"}
  ThreadCalls = {"yield", "sync"}
  WqCapacity = 2
  Mutexes = {}
  Sems = {"x"}
  SemMax = 2
  SemInitial = {0, 1}
  Conds = {}
INVARIANTS SyncTypeOK PermitsConserved NoIdlePermit
