CONSTANTS
  Path = {f, h}
  Hidden = {h}
  Id = {s1, s2}
  Bare <- MCBare
  Text <- MCText
  Context = 1
  Absent = Absent
  NoPath = NoPath
  NoId = NoId
  MaxEdits = 2
SPECIFICATION Spec
SYMMETRY Symmetry
PROPERTY RollbackUndoes
PROPERTY RollbackLeavesNoDiff
PROPERTY DiffsAgree
PROPERTY HiddenIsSpared
