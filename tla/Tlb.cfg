SPECIFICATION TlbSpec
CONSTANTS
  s1 = s1
  s2 = s2
  NoSpace = NoSpace
  First = s1
  Spaces = {s1, s2}
  NHarts = 3
  NUserFrames = 3
  NAsids = 2
  TlbScenarios <- TlbMain
INVARIANT TranslationsCurrent
PROPERTIES ShootdownCompletes
CHECK_DEADLOCK FALSE
