SPECIFICATION FairSpec
CONSTANTS
  t1 = t1
  t2 = t2
  muse = muse
  Turns = {t1, t2}
  Streamed = {t1}
  Owners = {muse}
  Owner <- MCOwner
  Deltas <- MCDeltas
  Workbooks = {t1, t2}
  RowPuts <- MCRowPuts
  NoTurn = NoTurn
  Capacity = 1
  MaxFailures = 1
  MaxCrashes = 1
INVARIANTS
  TypeOK
  StopMeansPersisted
  StopCarriesEverything
  FailedGenerationKeepsLast
  SettledRowsMatchArtifact
PROPERTIES
  ClientsAreTold
