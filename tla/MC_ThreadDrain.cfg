SPECIFICATION Spec
CONSTANTS
  a = a
  b = b
  w1 = w1
  w2 = w2
  Lead = {a, b}
  Ws = {w1}
  Home <- Together
  MaxTime = 5
  Overlap = 2
  Lag = 1
  SyncEvery = 2
  Settings <- Survived
  MaxFaults = 2
INVARIANTS
  TypeOK
  NoLeadPassedOver
  AccountedUnlessKilled
  NoHoles
