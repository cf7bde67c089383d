CONSTANTS
  Agent = {a}
  Thread = {t1, t2}
  NoAgent = NoAgent
  MaxIterations = 2
  Worker = {w1, w2}
  NoNode = NoNode
SPECIFICATION executionsSpec
CHECK_DEADLOCK FALSE
INVARIANT RestingWhenUnattended
INVARIANT AtMostOneLateIteration
PROPERTY CancelEndsPause
PROPERTY ExecuteReturns
