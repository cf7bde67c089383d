CONSTANTS
  Agent = {"planner", "researcher", "coder", "tester", "reviewer", "debugger"}
  Thread = {w}
  NoAgent = NoAgent
  MaxIterations = 1
  MaxRepairCycles = 1
  MaxCancels = 1
  HasCheckpoint = TRUE
SPECIFICATION Spec
INVARIANT RollbackRestores
