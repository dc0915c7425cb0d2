SPECIFICATION FairSpec
CONSTANTS
  a = a
  b = b
  w1 = w1
  w2 = w2
  Lead = {a, b}
  Ws = {w1, w2}
  Home <- Apart
  MaxTime = 4
  Overlap = 2
  Lag = 1
  SyncEvery = 2
  Settings <- OneFault
  MaxFaults = 1
PROPERTY CaughtUp
