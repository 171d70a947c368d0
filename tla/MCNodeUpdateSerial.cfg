CONSTANTS
  p3 = p3
  p5 = p5
  p7 = p7
  NoProc = NoProc
  Proc <- Three
  PidLen <- Lengths
  LockLen = 4
  Commands = {"start", "stop", "restart", "enable", "disable", "remove", "install"}
  MaxFaults = 2
  Overlap = FALSE
SPECIFICATION SysSpec
INVARIANTS HostTypeOK OneNode PidFileNamesNode TestDecides SerialKillIsSure RemovedIsDown
PROPERTY ImplementsPidFile
