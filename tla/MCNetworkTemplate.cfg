CONSTANTS
  n1 = n1
  t1 = t1
  Net <- OneNet
  Tool <- OneTool
  Ops <- DefaultOps
  MaxCrash = 0
SPECIFICATION Spec
INVARIANT LastWishStands
