\* Two process slots, every kind of process; HostProofs has the invariants
\* for any number of them.
SPECIFICATION FairSpec
CONSTANTS
  p1 = p1
  p2 = p2
  p3 = p3
  NoPid = NoPid
  Pid <- PidsTwo
  Kinds <- AllKinds
INVARIANTS
  TypeOK
  QueuedWritersExclusive
  ConflictOnlyWithOutsiders
  CopyNotTorn
  MarkerBlamesNobodyElse
PROPERTY FlockComesBack
