CONSTANTS
  Key = {k1, k2}
  Document = {k1, k2, k3}
  Value = {"v1", "v2"}
  Passage = {"v1", "v2"}
  Category = {"session", "long_term"}
  Session = "session"
  Conversation = {c1}
  Text = {"ok", "bad"}
  NotUtf8 = "bad"
  Torn = Torn
  NoFile = NoFile
  MaxMessages = 2
  MaxFaults = 1
  Vector <- MCVector
  Embedding <- MCEmbedding
  Similarity <- MCSimilarity
  TopK = 2
  Size <- MCSize
  Limits = {1, 3}
  MaxStores = 2
  Semantic = {"v2"}
  Node = {n1, n2, n3}
  Relation = {"uses", "fixes"}
  MaxEdges = 3
  MaxDepth = 2
  Path = {p1, p2}
  Source = {"def", "use", "text"}
  Missing = Missing
  Term = {"a", "b"}
  SymbolsOf <- MCSymbolsOf
  CountOf <- MCCountOf
  Caller = {t1, t2}
  Conv = {c1, c2}
  Item = {i1, i2, i3}
  Count = {0, 1}
  NoCaller = NoCaller
SPECIFICATION Spec
CONSTRAINT Followed
SYMMETRY Symmetry
INVARIANT UsageCovers
 
 
INVARIANT SearchIsBest
INVARIANT RelatedAreFound
INVARIANT IndexCovers
INVARIANT TokensMatch
CHECK_DEADLOCK FALSE
