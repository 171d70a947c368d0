CONSTANTS
  LoopCodes <- MCLoopCodes
  MaxSoft = 2
SPECIFICATION Spec
INVARIANTS TypeOK NoBareDeinit LoopLeavesNothing ServesComplete StatusTruthful DataGuarded
