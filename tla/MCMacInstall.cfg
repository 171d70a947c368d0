CONSTANTS
  n1 = n1
  t1 = t1
  t2 = t2
  Net <- OneNet
  Tool <- TwoTools
  Ops <- AllOps
  MaxCrash = 2
SPECIFICATION MacSpec
INVARIANTS MacTypeOK OrderlyWishStands OneFilePerNetwork EditsKept
PROPERTIES DefaultsKeepFiles
SYMMETRY Interchange
