\* Without deadlock: the program may stop in a crash.
CONSTANTS
  tagS = tagS
  memberA = memberA
  nameX = nameX
  nameF = nameF
  macroM = macroM
  Tags <- MCTags
  Members <- MCMembers
  Names <- MCNames
  Macros <- MCMacros
  Lines <- MCLines
  TypeLimit = 2
  SourceLimit = 5
  ExpandedLimit = 4
  NodeLimit = 3
  StepLimit = 2
  BufferBound = 4
  UnitBound = 2
SPECIFICATION Spec
INVARIANTS NothingDangles
PROPERTIES CompleteRowsFixed RejectedInputKeepsSession ReplayReproduces
CHECK_DEADLOCK FALSE
