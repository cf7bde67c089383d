CONSTANTS
  Provider = {p, q}
  Thread = {t1, t2}
  Chains <- MCChains
  NoProvider = NoProvider
SPECIFICATION Spec
SYMMETRY ThreadSymmetry
INVARIANT HalfOpenIsProbed
INVARIANT OfflineRecovers
INVARIANT HealthyIsClean
