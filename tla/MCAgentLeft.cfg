SPECIFICATION FairSpec
CONSTANTS
  t1 = t1
  t2 = t2
  muse = muse
  Turns = {t1}
  Streamed = {t1}
  Owners = {muse}
  Owner <- MCOwner
  Deltas <- MCDeltas
  Workbooks = {t1}
  RowPuts <- MCRowPuts
  NoTurn = NoTurn
  Capacity = 1
  MaxFailures = 0
  MaxCrashes = 0
PROPERTIES
  OutIsClosed
