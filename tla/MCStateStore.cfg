SPECIFICATION FairSpec
CONSTANTS
  Clients = {c1, c2}
  Keys = {k1, bad}
  ValidKeys = {k1}
  NoClient = NoClient
  MaxCalls = 4
  MaxCrashes = 1
INVARIANTS
  TypeOK
  VersionsIdentifyWrites
PROPERTIES
  NoLostUpdate
  Linearizable
  CallsReturn
