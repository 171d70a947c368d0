CONSTANTS
  a1 = a1
  b1 = b1
  th1 = th1
  th2 = th2
  k1 = k1
  k2 = k2
  NoThread = NoThread
  Starter <- OneA
  Stopper <- OneB
  Client <- Clients
  MaxListeners = 2
  Thread <- Threads
SPECIFICATION NotifySpec
INVARIANT ReportIsTrue
