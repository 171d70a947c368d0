CONSTANTS
  g1 = g1
  g2 = g2
  p1 = p1
  p2 = p2
  v1 = v1
  v2 = v2
  t1 = t1
  NoValue = NoValue
  Group <- Groups
  Param <- Params
  Value <- TwoValues
  Tool <- OneTool
  Start <- AllFiles
  Template <- SmallTemplate
  MaxLen = 5
  MaxCrash = 1
SPECIFICATION Spec
INVARIANTS TypeOK OrderlyEnsuredStands
PROPERTIES EditChangesOne
SYMMETRY Interchange
