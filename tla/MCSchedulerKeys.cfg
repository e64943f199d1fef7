SPECIFICATION Spec
CONSTANTS
  replay = replay
  reminder = reminder
  digest = digest
  nudge = nudge
  k1 = k1
  Jobs = {digest, nudge}
  OneShots = {nudge}
  Keys = {k1}
  NoKey = NoKey
  NoJob = NoJob
  Handled = {digest, nudge}
  Matches <- MCMatches
  RunAt <- MCRunAt
  Key <- MCKey
  Policy <- MCPolicy
  Window = 3
  MaxMatches = 2
  MaxTime = 5
  MaxCalls = 0
  MaxCrashes = 2
INVARIANTS
  FingerprintsAreDeliveries
  RecordedFiresSpaced
