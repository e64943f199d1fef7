SPECIFICATION Spec
CONSTANTS
  Deployers = {d1}
  Boot = Boot
  muse1 = muse1
  muse1r = muse1r
  muse2 = muse2
  beam = beam
  museSlug = museSlug
  beamSlug = beamSlug
  museDir = museDir
  museDir2 = museDir2
  beamDir = beamDir
  Packs = {muse1, muse2}
  Slugs = {museSlug, beamSlug}
  Dirs = {museDir, museDir2, beamDir}
  Slug <- MCSlug
  Dir <- MCDir
  ActionIds = {"post", "plan"}
  Actions <- MCActions
  Contents <- MCContents
  Schedules <- MCSchedules
  DirOrder <- MCDirOrder
  None = None
  Torn = Torn
  MaxDeploys = 2
  MaxCrashes = 1
INVARIANTS
  RestartServesWhatWasDeployed
