SPECIFICATION Spec
CONSTANTS
  Null = Null
  Capacity = 2
  MaxEvents = 6
  Partial = {0, 1}
  Rates = {0, 100, 101}
  ReplayFromModes = {"NORMAL", "RECORD", "REPLAY"}
INVARIANTS HandlesExact NoStaleSubsystem TraceComplete 
