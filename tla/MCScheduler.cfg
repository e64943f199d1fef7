SPECIFICATION FairSpec
CONSTANTS
  replay = replay
  reminder = reminder
  digest = digest
  nudge = nudge
  k1 = k1
  Jobs = {replay, reminder}
  OneShots = {reminder}
  Keys = {k1}
  NoKey = NoKey
  NoJob = NoJob
  Handled = {replay, reminder}
  Matches <- MCMatches
  RunAt <- MCRunAt
  Key <- MCKey
  Policy <- MCPolicy
  Window = 7
  MaxMatches = 2
  MaxTime = 7
  MaxCalls = 2
  MaxCrashes = 1
INVARIANTS
  TypeOK
  ReplayLeavesNoGap
  OneShotFiresOncePerAdd
PROPERTIES
  OneShotsFire
