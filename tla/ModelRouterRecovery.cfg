CONSTANTS
  Provider = {p}
  Thread = {t1, t2}
  Chains <- MCNoChain
  NoProvider = NoProvider
SPECIFICATION FairSpec
PROPERTY HalfOpenEnds
