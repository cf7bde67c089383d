CONSTANTS
  Provider = {p}
  Thread = {t1, t2, t3}
  Chains <- MCNoChain
  NoProvider = NoProvider
SPECIFICATION Spec
SYMMETRY ThreadSymmetry
INVARIANT AtMostOneProbe
