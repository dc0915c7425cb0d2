SPECIFICATION Spec
CONSTANTS
  first = first
  edited = edited
  rival = rival
  NoDdl = NoDdl
  NoName = NoName
  Ddl = {first, rival}
  Name <- FileNames
  Version = {7}
  NameOf <- Names
  NumberOf <- Numbers
  Landmine = {rival}
  MaxRows = 2
  MaxFaults = 2
INVARIANTS
  TypeOK
  OneEffectPerVersion
  NotSwallowed
PROPERTIES
  ImplementsHistory
