SPECIFICATION Spec
CONSTANTS
  x = x
  y = y
  f = f
  blockOfF = blockOfF
  g = g
  outerX = outerX
  innerX = innerX
  privateY = privateY
  useX = useX
  globalY = globalY
  NULL = NULL
  SymbolNodes = {s1, s2, s3, s4}
  Names = {x, y}
  Blocks = {f, blockOfF, g}
  Enclosing <- MCEnclosing
  Declarations = {outerX, innerX, privateY}
  DeclaredName <- MCDeclaredName
  Block <- MCBlock
  Private = {privateY}
  Uses = {useX}
  GlobalUses = {globalY}
  UsedName <- MCUsedName
  MaxScopes = 5
  MaxSerial = 5
SYMMETRY MCSymmetry
CHECK_DEADLOCK FALSE
INVARIANTS
  ResolutionAgrees
  BindingsFollowScopes
