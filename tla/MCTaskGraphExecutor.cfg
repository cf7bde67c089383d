CONSTANTS
  Size = 3
  RetriedNode = 1
  Retries = 1
  Worker = {w1, w2}
  Node <- MCNode
  Graphs <- MCGraphs
  MaxRetries <- MCMaxRetries
  MaxExecutions = 2
  NoNode = NoNode
  PoolWorker = {w1, w2}
  Job = {x, y}
  NoId = NoId
  NoTask = NoTask
  Priority = {0, 1}
  DefaultRetries = 1
  MaxQueued = 2
SPECIFICATION poolsSpec
SYMMETRY ThreadSymmetry
CONSTRAINT Followed
CHECK_DEADLOCK FALSE
INVARIANT DependencyOrder
INVARIANT DispatchedOnce
INVARIANT CountersMatch
INVARIANT RunningIsAttended
PROPERTY DecidedIsFinal
PROPERTY SkippedIsBelowFailure
PROPERTY ImplementsDagExecution
