CONSTANTS
  Task = {t1}
  Change = {e1, e2}
  TrackedChange = {e1}
  MaxCommits = 2
  MaxRecords = 1
  MaxLives = 1
SPECIFICATION sandboxSpec
INVARIANT AppliedIsWhole
CHECK_DEADLOCK FALSE
