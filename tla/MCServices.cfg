CONSTANTS
  Chain <- MCChain
  MaxNodes = 1
  MaxDeps = 2
  MaxPlans = 1
  Provided = {"git"}
  Caller = {k1, k2}
  NoCall = NoCall
  Duration = {0, 2}
  MaxCalls = 3
  MaxTools = 3
  Id = {a, b, c}
  State = {"Pending", "Completed"}
  Bare <- DiffBare
  Context = 1
  MaxLines = 4
  KernelThread = {k1, k2}
  MaxEvents = 4
  Name = {n1, n2}
  Root = Root
  Task = {x, y}
  Change = {e1}
  TrackedChange = {e1}
  MaxCommits = 1
  MaxRecords = 3
  MaxLives = 3
  Branch = {main, b1}
  Trunk = main
  Work = {e1, e2}
  MaxStashes = 1
  Char <- MCChar
  Blank = {" "}
  Completion <- MCCompletion
  MaxChars = 1
  MaxHistory = 2
  Argument <- MCArgument
  MaxDispatched = 2
  Letter = {"a", "/"}
  MaxLetters = 3
  Alnum = {"a", "b"}
  MaxText = 5
  MaxDim = 75
  MaxTests = 3
  ConversationId = {i1, i2}
  NoConversation = NoConversation
  Tokens = {1}
  Window = {1, 3}
  MaxSaid = 2
  MaxObjects = 2
  SourceFile = {"f", "g"}
  MaxListed = 4
  MaxCode = 3
  MaxLint = 3
  MaxPieces = 2
SPECIFICATION servicesSpec
SYMMETRY Symmetry
CONSTRAINT Followed
 
INVARIANT GoodBranchIsTaken
INVARIANT Bidirectional
INVARIANT AlgorithmsAreCorrect
INVARIANT DiffIsExact
INVARIANT EventsOnce
 
 
 
INVARIANT ExitCodeTells
 
 
CHECK_DEADLOCK FALSE
