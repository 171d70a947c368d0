CONSTANTS
  p3 = p3
  p5 = p5
  p7 = p7
  NoProc = NoProc
  Proc <- Two
  PidLen <- CloseLengthsOf
  LockLen = 4
  Commands = {"start", "stop"}
  MaxFaults = 1
  Overlap = TRUE
SPECIFICATION SysFairSpec
PROPERTIES ImplementsSingleInstance StartSettles ServiceComesUp HandUpdateCompletes
